---- MODULE Spec2Model ----
(***************************************************************************)
(* Image pipeline (grayscale, box blur, Sobel edge), the serial and the    *)
(* OpenMP harness that drive it, and the metrics they derive.              *)
(*                                                                         *)
(* C doubles are modelled exactly (IEEE-754 binary64, round to nearest,    *)
(* ties to even, no fused multiply-add): a double is a record              *)
(* [s, m, e] standing for (-1)^s * m * 2^e, the mantissa m a natural       *)
(* number of at most 53 bits kept as a sequence of 15-bit limbs.           *)
(***************************************************************************)
EXTENDS Integers, Sequences, FiniteSets

(***************************************************************************)
(* Natural numbers of any size: little-endian sequences of limbs in        *)
(* 0..Base-1 with no leading zero limb; << >> is zero.                     *)
(***************************************************************************)
LimbBits == 15
Base == 32768

RECURSIVE Pow2(_)
Pow2(k) == IF k = 0 THEN 1 ELSE 2 * Pow2(k - 1)

RECURSIVE BNorm(_)
BNorm(a) ==
    IF a = << >> THEN a
    ELSE IF a[Len(a)] = 0 THEN BNorm(SubSeq(a, 1, Len(a) - 1))
    ELSE a

RECURSIVE BFromInt(_)
BFromInt(n) == IF n = 0 THEN << >> ELSE <<n % Base>> \o BFromInt(n \div Base)

RECURSIVE BToInt(_)
BToInt(a) == IF a = << >> THEN 0 ELSE a[1] + Base * BToInt(Tail(a))

Limb(a, i) == IF i <= Len(a) THEN a[i] ELSE 0

RECURSIVE BAddC(_, _, _)
BAddC(a, b, carry) ==
    IF a = << >> /\ b = << >>
    THEN (IF carry = 0 THEN << >> ELSE <<carry>>)
    ELSE LET s == Limb(a, 1) + Limb(b, 1) + carry
         IN  <<s % Base>> \o
             BAddC(IF a = << >> THEN a ELSE Tail(a),
                   IF b = << >> THEN b ELSE Tail(b), s \div Base)

BAdd(a, b) == BAddC(a, b, 0)

\* a - b for a >= b
RECURSIVE BSubC(_, _, _)
BSubC(a, b, borrow) ==
    IF a = << >> THEN << >>
    ELSE LET d == a[1] - Limb(b, 1) - borrow
         IN  <<IF d < 0 THEN d + Base ELSE d>> \o
             BSubC(Tail(a), IF b = << >> THEN b ELSE Tail(b),
                   IF d < 0 THEN 1 ELSE 0)

BSub(a, b) == BNorm(BSubC(a, b, 0))

\* -1, 0, 1 as a < b, a = b, a > b
RECURSIVE BCmpFrom(_, _, _)
BCmpFrom(a, b, i) ==
    IF i = 0 THEN 0
    ELSE IF a[i] < b[i] THEN -1
    ELSE IF a[i] > b[i] THEN 1
    ELSE BCmpFrom(a, b, i - 1)

BCmp(a, b) ==
    IF Len(a) < Len(b) THEN -1
    ELSE IF Len(a) > Len(b) THEN 1
    ELSE BCmpFrom(a, b, Len(a))

\* a * k for 0 <= k < Base
RECURSIVE BMulSmallC(_, _, _)
BMulSmallC(a, k, carry) ==
    IF a = << >>
    THEN (IF carry = 0 THEN << >> ELSE <<carry>>)
    ELSE LET p == a[1] * k + carry
         IN  <<p % Base>> \o BMulSmallC(Tail(a), k, p \div Base)

BMulSmall(a, k) == IF k = 0 THEN << >> ELSE BMulSmallC(a, k, 0)

RECURSIVE BMul(_, _)
BMul(a, b) ==
    IF a = << >> \/ b = << >> THEN << >>
    ELSE BAdd(BMulSmall(b, a[1]),
              LET r == BMul(Tail(a), b)
              IN  IF r = << >> THEN r ELSE <<0>> \o r)

\* floor(a / k) for 0 < k < Base, from the most significant limb down
RECURSIVE BDivSmallFrom(_, _, _, _)
BDivSmallFrom(a, k, i, rem) ==
    IF i = 0 THEN << >>
    ELSE LET cur == rem * Base + a[i]
         IN  BDivSmallFrom(a, k, i - 1, cur % k) \o <<cur \div k>>

BDivSmall(a, k) == BNorm(BDivSmallFrom(a, k, Len(a), 0))

RECURSIVE Zeros(_)
Zeros(n) == IF n = 0 THEN << >> ELSE <<0>> \o Zeros(n - 1)

\* a * 2^k
BShl(a, k) ==
    IF a = << >> THEN a
    ELSE Zeros(k \div LimbBits) \o BMulSmall(a, Pow2(k % LimbBits))

\* floor(a / 2^k)
BShr(a, k) ==
    IF k \div LimbBits >= Len(a) THEN << >>
    ELSE BDivSmall(SubSeq(a, (k \div LimbBits) + 1, Len(a)), Pow2(k % LimbBits))

RECURSIVE IntBitLen(_)
IntBitLen(n) == IF n = 0 THEN 0 ELSE 1 + IntBitLen(n \div 2)

BitLen(a) ==
    IF a = << >> THEN 0
    ELSE LimbBits * (Len(a) - 1) + IntBitLen(a[Len(a)])

\* bit i (bit 0 the least significant) of a
BBit(a, i) == (Limb(a, (i \div LimbBits) + 1) \div Pow2(i % LimbBits)) % 2

\* the index of the lowest set bit of m # 0 that is at or above bit k
RECURSIVE TrailingZeros(_, _)
TrailingZeros(m, k) == IF BBit(m, k) = 1 THEN k ELSE TrailingZeros(m, k + 1)

\* whether the k lowest bits of a are all zero
BLowZero(a, k) == a = << >> \/ TrailingZeros(a, 0) >= k

NonNeg(k) == IF k > 0 THEN k ELSE 0

\* the largest q <= guess with q * d <= r
RECURSIVE DigitFix(_, _, _)
DigitFix(r, d, guess) ==
    IF BCmp(BMulSmall(d, guess), r) > 0 THEN DigitFix(r, d, guess - 1)
    ELSE guess

\* the quotient digit guessed from the two top limbs of the remainder and
\* the top limb of the divisor
DigitGuess(top2, lead) ==
    IF top2 \div lead > Base - 1 THEN Base - 1 ELSE top2 \div lead

\* schoolbook long division of n by d, the limbs of n taken from the most
\* significant down; qr holds the quotient digits found so far and the
\* remainder of the limbs taken.  d has its top limb >= Base/2, so that the
\* digit guessed from the two top limbs of the remainder is at most 2 too
\* large
BDivTake(d, qs, r1, q) == <<(<<q>> \o qs), BSub(r1, BMulSmall(d, q))>>

BDivDigit(d, qs, r1) ==
    BDivTake(d, qs, r1,
             DigitFix(r1, d,
                      DigitGuess(Limb(r1, Len(d) + 1) * Base + Limb(r1, Len(d)),
                                 d[Len(d)])))

BDivStep(n, d, qr) ==
    BDivDigit(d, qr[1], BNorm(<<n[Len(n) - Len(qr[1])]>> \o qr[2]))

RECURSIVE BDivLong(_, _, _)
BDivLong(n, d, qr) ==
    IF Len(qr[1]) = Len(n) THEN qr ELSE BDivLong(n, d, BDivStep(n, d, qr))

BDivResult(qr, sh) == <<BNorm(qr[1]), BShr(qr[2], sh)>>

\* <<floor(n / d), n mod d>> for d > 0: both are shifted so that the top
\* limb of the divisor is at least Base/2
BDivShifted(n, d, sh) ==
    BDivResult(BDivLong(BShl(n, sh), BShl(d, sh), <<(<< >>), (<< >>)>>), sh)

BDivMod(n, d) == BDivShifted(n, d, LimbBits - IntBitLen(d[Len(d)]))

(***************************************************************************)
(* IEEE-754 binary64 values: [s |-> 0 or 1, m |-> mantissa, e |-> exponent] *)
(* with m odd, or m zero and s = e = 0, so that equal values are equal     *)
(* records.  Exponents stay far inside the binary64 range for every input  *)
(* the model draws, so overflow, subnormals, infinities and NaN do not     *)
(* arise.                                                                  *)
(***************************************************************************)
MantBits == 53

FZero == [s |-> 0, m |-> << >>, e |-> 0]

\* m * 2^e with the z trailing zero bits of m moved into the exponent
FShiftOut(s, m, e, z) == [s |-> s, m |-> BShr(m, z), e |-> e + z]

FNorm(s, m, e) ==
    IF m = << >> THEN FZero ELSE FShiftOut(s, m, e, TrailingZeros(m, 0))

\* q * 2^e, or (q + 1) * 2^e when the discarded bits are above one half
\* (half and rest) or exactly one half (half, no rest) with q odd
FRoundQ(s, q, e, half, rest) ==
    FNorm(s, IF half /\ (rest \/ BBit(q, 0) = 1) THEN BAdd(q, <<1>>) ELSE q, e)

\* m * 2^e with the k lowest bits of m rounded away
FRoundAt(s, m, e, k) ==
    FRoundQ(s, BShr(m, k), e + k,
            k > 0 /\ BBit(m, k - 1) = 1, k > 0 /\ ~BLowZero(m, k - 1))

\* the double nearest to (-1)^s * m * 2^e, ties to the even mantissa
FRound(s, m, e) == FRoundAt(s, m, e, NonNeg(BitLen(m) - MantBits))

\* (double)n for an integer n of the model's int range
FFromInt(n) ==
    FRound(IF n < 0 THEN 1 ELSE 0, BFromInt(IF n < 0 THEN 0 - n ELSE n), 0)

\* (double)u for an unsigned 64-bit u kept as limbs
FFromBig(u) == FRound(0, u, 0)

FNeg(a) == IF a.m = << >> THEN a ELSE [a EXCEPT !.s = 1 - a.s]

FMul(a, b) ==
    FRound((a.s + b.s) % 2, BMul(a.m, b.m), a.e + b.e)

\* (-1)^sa * ma * 2^e + (-1)^sb * mb * 2^e, rounded
FAddAligned(sa, ma, sb, mb, e) ==
    FRound(IF BCmp(ma, mb) < 0 THEN sb ELSE sa,
           IF sa = sb THEN BAdd(ma, mb)
           ELSE IF BCmp(ma, mb) < 0 THEN BSub(mb, ma) ELSE BSub(ma, mb),
           e)

\* a + b for nonzero a and b, e the smaller of their exponents
FAddAt(a, b, e) ==
    FAddAligned(a.s, BShl(a.m, a.e - e), b.s, BShl(b.m, b.e - e), e)

FAdd(a, b) ==
    IF a.m = << >> THEN b
    ELSE IF b.m = << >> THEN a
    ELSE FAddAt(a, b, IF a.e < b.e THEN a.e ELSE b.e)

FSub(a, b) == FAdd(a, FNeg(b))

\* the quotient qr[1] with the remainder qr[2] folded into a sticky lowest
\* bit, rounded
FSticky(s, qr, e) ==
    FRound(s, BAdd(BMulSmall(qr[1], 2),
                   IF qr[2] = << >> THEN << >> ELSE <<1>>), e)

FRatioAt(s, n, d, e, sh) == FSticky(s, BDivMod(BShl(n, sh), d), e - sh - 1)

\* the double nearest to (-1)^s * (n / d) * 2^e for limbs n, d with d # 0:
\* the quotient to 56 bits or more, then rounded
FRatio(s, n, d, e) ==
    IF n = << >> THEN FZero
    ELSE FRatioAt(s, n, d, e, NonNeg(MantBits + 3 + BitLen(d) - BitLen(n)))

\* a / b for b # 0
FDiv(a, b) == FRatio((a.s + b.s) % 2, a.m, b.m, a.e - b.e)

\* a decimal literal n/d (n, d positive): the nearest double
FLit(n, d) == FRatio(0, BFromInt(n), BFromInt(d), 0)

FIsPos(a) == a.s = 0 /\ a.m # << >>
FIsNeg(a) == a.s = 1 /\ a.m # << >>

FSign(a) == IF FIsPos(a) THEN 1 ELSE IF FIsNeg(a) THEN -1 ELSE 0

\* -1, 0, 1 as a < b, a = b, a > b
FCmp(a, b) == FSign(FSub(a, b))

\* the integer part of |a| (conversion to an integer type truncates)
FTruncBig(a) == IF a.e >= 0 THEN BShl(a.m, a.e) ELSE BShr(a.m, 0 - a.e)


(***************************************************************************)
(* Images (filters.h).  data is the byte buffer, indexed from 0 as in C;   *)
(* << >> stands for a NULL data pointer and NullImage for a NULL Image     *)
(* pointer.  Allocation (malloc) is taken to succeed.                      *)
(***************************************************************************)
NullImage == [width |-> 0, height |-> 0, channels |-> 0, data |-> << >>]

Byte == 0..255

\* the 0-indexed buffer of n bytes with f(i) at index i (the comparison makes
\* TLC compute the buffer once, instead of at every access)
Buffer(n, f(_)) ==
    LET b == [i \in 0..(n - 1) |-> f(i)]
    IN  IF b = << >> THEN << >> ELSE b

\* 0.299 * v, 0.587 * v and 0.114 * v for a byte v converted to double
C299 == FLit(299, 1000)
C587 == FLit(587, 1000)
C114 == FLit(114, 1000)
W299 == [v \in Byte |-> FMul(C299, FFromInt(v))]
W587 == [v \in Byte |-> FMul(C587, FFromInt(v))]
W114 == [v \in Byte |-> FMul(C114, FFromInt(v))]

\* a faulty variant of Luminance: the weights applied in B, G, R order
LuminanceBGR(r, g, b) ==
    BToInt(FTruncBig(FAdd(FAdd(W299[b], W587[g]), W114[r])))

\* (unsigned char)(0.299 * r + 0.587 * g + 0.114 * b), evaluated in double
\* from left to right; the sum is below 256, so the conversion truncates
Luminance(r, g, b) ==
    BToInt(FTruncBig(FAdd(FAdd(W299[r], W587[g]), W114[b])))

apply_grayscale(img) ==
    IF img = NullImage \/ img.data = << >> \/ img.channels < 3 THEN img
    ELSE LET c == img.channels
             gray(i) == Luminance(img.data[i * c], img.data[i * c + 1],
                                  img.data[i * c + 2])
         IN  [img EXCEPT !.data =
                 Buffer(img.width * img.height * c,
                        LAMBDA k : IF k % c < 3 THEN gray(k \div c)
                                   ELSE img.data[k])]

RECURSIVE SumRange(_, _, _)
\* f(lo) + ... + f(hi)
SumRange(f(_), lo, hi) ==
    IF lo > hi THEN 0 ELSE f(lo) + SumRange(f, lo + 1, hi)

\* a faulty variant of HorizontalPass: the sum divided by the full window
\* 2*radius + 1 at the edges too
HorizontalPassFullWindow(src, w, h, c, radius) ==
    Buffer(w * h * c,
           LAMBDA k :
             LET ch   == k % c
                 x    == (k \div c) % w
                 y    == (k \div c) \div w
                 xmin == IF x - radius < 0 THEN 0 ELSE x - radius
                 xmax == IF x + radius >= w THEN w - 1 ELSE x + radius
                 rsum == SumRange(LAMBDA xx : src[(y * w + xx) * c + ch],
                                  xmin, xmax)
             IN  IF ch < 3 THEN rsum \div (2 * radius + 1) ELSE 0)

\* the horizontal pass: tmp[(y*w + x)*c + ch] for ch < 3
HorizontalPass(src, w, h, c, radius) ==
    Buffer(w * h * c,
           LAMBDA k :
             LET ch   == k % c
                 x    == (k \div c) % w
                 y    == (k \div c) \div w
                 xmin == IF x - radius < 0 THEN 0 ELSE x - radius
                 xmax == IF x + radius >= w THEN w - 1 ELSE x + radius
                 rsum == SumRange(LAMBDA xx : src[(y * w + xx) * c + ch],
                                  xmin, xmax)
                 count == xmax - xmin + 1
             IN  IF ch < 3 THEN rsum \div count ELSE 0)

\* a faulty variant of VerticalPass: the window is read from src, which the
\* pass is overwriting, where the code reads tmp
VerticalPassReadsSource(src, tmp, w, h, c, radius) ==
    Buffer(w * h * c,
           LAMBDA k :
             LET ch   == k % c
                 x    == (k \div c) % w
                 y    == (k \div c) \div w
                 ymin == IF y - radius < 0 THEN 0 ELSE y - radius
                 ymax == IF y + radius >= h THEN h - 1 ELSE y + radius
                 rsum == SumRange(LAMBDA yy : src[(yy * w + x) * c + ch],
                                  ymin, ymax)
                 count == ymax - ymin + 1
             IN  IF ch < 3 THEN rsum \div count ELSE src[k])

\* a faulty variant of VerticalPass: the channel loop stops before blue
VerticalPassTwoChannels(src, tmp, w, h, c, radius) ==
    Buffer(w * h * c,
           LAMBDA k :
             LET ch   == k % c
                 x    == (k \div c) % w
                 y    == (k \div c) \div w
                 ymin == IF y - radius < 0 THEN 0 ELSE y - radius
                 ymax == IF y + radius >= h THEN h - 1 ELSE y + radius
                 rsum == SumRange(LAMBDA yy : tmp[(yy * w + x) * c + ch],
                                  ymin, ymax)
                 count == ymax - ymin + 1
             IN  IF ch < 2 THEN rsum \div count ELSE src[k])

\* the vertical pass, from tmp back into src; bytes of a fourth channel stay
VerticalPass(src, tmp, w, h, c, radius) ==
    Buffer(w * h * c,
           LAMBDA k :
             LET ch   == k % c
                 x    == (k \div c) % w
                 y    == (k \div c) \div w
                 ymin == IF y - radius < 0 THEN 0 ELSE y - radius
                 ymax == IF y + radius >= h THEN h - 1 ELSE y + radius
                 rsum == SumRange(LAMBDA yy : tmp[(yy * w + x) * c + ch],
                                  ymin, ymax)
                 count == ymax - ymin + 1
             IN  IF ch < 3 THEN rsum \div count ELSE src[k])

\* a faulty variant of apply_box_blur: a non-positive radius becomes 1
apply_box_blur_DefaultRadius(img, radius) ==
    IF img = NullImage \/ img.data = << >> \/ img.channels < 3 THEN img
    ELSE LET w == img.width
             h == img.height
             c == img.channels
             r == IF radius <= 0 THEN 1 ELSE radius
             tmp == HorizontalPass(img.data, w, h, c, r)
         IN  [img EXCEPT !.data = VerticalPass(img.data, tmp, w, h, c, r)]

apply_box_blur(img, radius) ==
    IF img = NullImage \/ img.data = << >> \/ img.channels < 3 \/ radius <= 0
    THEN img
    ELSE LET w == img.width
             h == img.height
             c == img.channels
             tmp == HorizontalPass(img.data, w, h, c, radius)
         IN  [img EXCEPT !.data = VerticalPass(img.data, tmp, w, h, c, radius)]

\* (int)sqrt((double)n) for 0 <= n < 2^31: n is exact as a double and sqrt
\* is correctly rounded, so the result is the integer square root
RECURSIVE SqrtSearch(_, _, _)
SqrtSearch(n, lo, hi) ==
    IF lo = hi THEN lo
    ELSE LET mid == (lo + hi + 1) \div 2
         IN  IF mid * mid <= n THEN SqrtSearch(n, mid, hi)
             ELSE SqrtSearch(n, lo, mid - 1)

IntSqrt(n) == SqrtSearch(n, 0, 46340)

gx == <<<<-1, 0, 1>>, <<-2, 0, 2>>, <<-1, 0, 1>>>>
gy == <<<<-1, -2, -1>>, <<0, 0, 0>>, <<1, 2, 1>>>>

\* a faulty variant of SobelMag: the magnitude is stored without the clamp, so
\* the conversion to unsigned char keeps its low 8 bits
SobelMagUnclamped(gray, w, x, y) ==
    LET val(ky, kx) == gray[(y + ky) * w + (x + kx)]
        sumx == SumRange(LAMBDA ky :
                    SumRange(LAMBDA kx : gx[ky + 2][kx + 2] * val(ky, kx), -1, 1),
                    -1, 1)
        sumy == SumRange(LAMBDA ky :
                    SumRange(LAMBDA kx : gy[ky + 2][kx + 2] * val(ky, kx), -1, 1),
                    -1, 1)
    IN  IntSqrt(sumx * sumx + sumy * sumy) % 256

\* the value stored in out[y*w + x] for an interior pixel
SobelMag(gray, w, x, y) ==
    LET K == {-1, 0, 1}
        val(ky, kx) == gray[(y + ky) * w + (x + kx)]
        sumx == SumRange(LAMBDA ky :
                    SumRange(LAMBDA kx : gx[ky + 2][kx + 2] * val(ky, kx), -1, 1),
                    -1, 1)
        sumy == SumRange(LAMBDA ky :
                    SumRange(LAMBDA kx : gy[ky + 2][kx + 2] * val(ky, kx), -1, 1),
                    -1, 1)
        mag  == IntSqrt(sumx * sumx + sumy * sumy)
    IN  IF mag > 255 THEN 255 ELSE IF mag < 0 THEN 0 ELSE mag

Interior(w, h, x, y) == x >= 1 /\ x < w - 1 /\ y >= 1 /\ y < h - 1

\* the luminance buffer gray[] and, from it, the value out[i] of every
\* interior pixel i (0 stands at the other indices, which out[] never gets)
SobelGradient(img) ==
    LET w == img.width
        h == img.height
        c == img.channels
        gray == Buffer(w * h, LAMBDA i :
                   Luminance(img.data[i * c], img.data[i * c + 1],
                             img.data[i * c + 2]))
    IN  Buffer(w * h, LAMBDA i :
            IF Interior(w, h, i % w, i \div w)
            THEN SobelMag(gray, w, i % w, i \div w)
            ELSE 0)

\* out = malloc(pixels) is written at the interior pixels only and then
\* copied whole into the image: the bytes of the outermost ring come from
\* the fresh allocation, whose content (uninit) is indeterminate
SobelCopy(img, edges, uninit) ==
    LET w == img.width
        h == img.height
        c == img.channels
        out == Buffer(w * h, LAMBDA i :
                  IF Interior(w, h, i % w, i \div w) THEN edges[i]
                  ELSE uninit[i])
    IN  [img EXCEPT !.data =
            Buffer(w * h * c, LAMBDA k :
                IF k % c < 3 THEN out[k \div c] ELSE img.data[k])]

SobelGuard(img) == img = NullImage \/ img.data = << >> \/ img.channels < 3

apply_sobel_edge(img, uninit) ==
    IF SobelGuard(img) THEN img
    ELSE SobelCopy(img, SobelGradient(img), uninit)

(***************************************************************************)
(* Inputs of the filters.                                                  *)
(***************************************************************************)
MaxW == 3
MaxH == 3
MaxRadius == 2

\* colours of the input images: two whose luminance sum is an integer that
\* double arithmetic misses from below, a saturated one and a generic one
Palette == <<(<<1, 1, 1>>), (<<202, 100, 50>>), (<<0, 72, 24>>),
             (<<255, 255, 255>>)>>
Steps == {0, 1}
OtherChannelCounts == {1, 4}

\* the w x h image whose pixel (x, y) has colour Palette[(s + a*x + b*y) mod n]
PatternImage(w, h, c, s, a, b) ==
    [width |-> w, height |-> h, channels |-> c,
     data |-> Buffer(w * h * c, LAMBDA k :
                 LET x   == (k \div c) % w
                     y   == (k \div c) \div w
                     col == Palette[((s + a * x + b * y) % Len(Palette)) + 1]
                 IN  IF k % c < 3 THEN col[(k % c) + 1] ELSE 255)]

InputImages ==
    { PatternImage(w, h, 3, s, a, b) :
        w \in 1..MaxW, h \in 1..MaxH,
        s \in 0..(Len(Palette) - 1), a \in Steps, b \in Steps }
    \cup { PatternImage(w, h, c, 0, 1, 1) :
        w \in 1..MaxW, h \in 1..MaxH, c \in OtherChannelCounts }
    \cup {NullImage, [width |-> 2, height |-> 2, channels |-> 3, data |-> << >>]}

\* malloc does not initialise what it returns: a byte of out that the
\* program has not written is indeterminate.  It is whatever the run finds
\* at that address, any of 0..255, different from run to run and from
\* build to build, so the model commits to no value for it: the byte at
\* offset i of the k-th allocation of out is kept as the number
\* Indeterminate(k, i), above every byte value.  Two bytes with the same
\* number are one byte read once and hold the same value; bytes with
\* different numbers may hold any two values.
Indeterminate(k, i) == 256 + ((k + i) * (k + i + 1)) \div 2 + i
IsIndeterminate(v) == v > 255

\* the content of the k-th allocation of out, of n bytes
Uninit(k, n) == Buffer(n, LAMBDA i : Indeterminate(k, i))

\* the byte a run reads for v when its k-th allocation of out holds mem[k]
ByteRead(v, mem) ==
    IF IsIndeterminate(v)
    THEN LET at == CHOOSE ki \in {<<k, i>> : k \in DOMAIN mem,
                                             i \in 0..(v - 256)} :
                      Indeterminate(ki[1], ki[2]) = v
         IN  mem[at[1]][at[2]]
    ELSE v

\* the image a run holds where the model holds img, given what the run's
\* allocations of out held
Observed(img, mem) ==
    IF img = NullImage \/ img.data = << >> THEN img
    ELSE [img EXCEPT !.data = Buffer(img.width * img.height * img.channels,
                                     LAMBDA j : ByteRead(img.data[j], mem))]

(***************************************************************************)
(* Timers (timer.c).  A clock reading holds what the system calls return:  *)
(* the monotonic clock's timespec, the rusage timevals and the cycle       *)
(* counter (limbs of an unsigned 64-bit value).                            *)
(***************************************************************************)
NanoSec == FLit(1, 1000000000)
MicroSec == FLit(1, 1000000)

\* (double)tv_sec + (double)tv_nsec * 1e-9
wall_time(ck) == FAdd(FFromInt(ck.sec), FMul(FFromInt(ck.nsec), NanoSec))

\* <<user, system>>, each (double)tv_sec + (double)tv_usec * 1e-6
get_cpu_times(ck) ==
    <<FAdd(FFromInt(ck.usec[1]), FMul(FFromInt(ck.usec[2]), MicroSec)),
      FAdd(FFromInt(ck.ssec[1]), FMul(FFromInt(ck.ssec[2]), MicroSec))>>

read_tsc(ck) == ck.tsc

\* 2^64 as limbs, and c_end - c_start in uint64_t arithmetic
TwoTo64 == BShl(<<1>>, 64)
TscDelta(cStart, cEnd) ==
    IF BCmp(cEnd, cStart) >= 0 THEN BSub(cEnd, cStart)
    ELSE BSub(BAdd(cEnd, TwoTo64), cStart)

(***************************************************************************)
(* Metrics (serial.c 12-25, parallel.c 72-96).  The serial program's       *)
(* struct has no estimate and no thread fields: they stay 0 in its record. *)
(***************************************************************************)
ZeroMetrics ==
    [images_processed |-> 0, total_pixels |-> 0,
     wall_time_sec |-> FZero, cpu_user_time_sec |-> FZero,
     cpu_system_time_sec |-> FZero,
     avg_time_per_image_ms |-> FZero, avg_time_per_pixel_ns |-> FZero,
     cpu_cycles |-> << >>,
     cycles_per_image |-> FZero, cycles_per_pixel |-> FZero,
     estimated_total_cycles_all_threads |-> << >>,
     estimated_cycles_per_image_all_threads |-> FZero,
     estimated_cycles_per_pixel_all_threads |-> FZero,
     max_width |-> 0, max_height |-> 0, threads_used |-> 0]

\* the counters a run accumulates over its images
ZeroCounts ==
    [images_processed |-> 0, total_pixels |-> 0, max_width |-> 0,
     max_height |-> 0]

Max(a, b) == IF a > b THEN a ELSE b

\* a faulty variant of Account: the size of the image is stored as the
\* largest size whatever was stored before
AccountLastSize(acc, img) ==
    [acc EXCEPT
       !.images_processed = @ + 1,
       !.total_pixels     = @ + img.width * img.height,
       !.max_width        = img.width,
       !.max_height       = img.height]

\* the accounting of one loaded image, on a Metrics or on private counters
Account(acc, img) ==
    [acc EXCEPT
       !.images_processed = @ + 1,
       !.total_pixels     = @ + img.width * img.height,
       !.max_width        = Max(@, img.width),
       !.max_height       = Max(@, img.height)]

\* the counters and the timer deltas stored after the loop, from the values
\* the timer calls returned before and after it
StoreTimes(m, acc, t_start, t_end, cpu_before, cpu_after, c_start, c_end) ==
    [m EXCEPT
       !.images_processed    = acc.images_processed,
       !.total_pixels        = acc.total_pixels,
       !.max_width           = acc.max_width,
       !.max_height          = acc.max_height,
       !.wall_time_sec       = FSub(t_end, t_start),
       !.cpu_user_time_sec   = FSub(cpu_after[1], cpu_before[1]),
       !.cpu_system_time_sec = FSub(cpu_after[2], cpu_before[2]),
       !.cpu_cycles          = TscDelta(c_start, c_end)]

StopTimers(m, acc, before, after) ==
    StoreTimes(m, acc, wall_time(before), wall_time(after),
               get_cpu_times(before), get_cpu_times(after),
               read_tsc(before), read_tsc(after))

Thousand == FFromInt(1000)
Billion == FFromInt(1000000000)

\* a faulty variant of DeriveRates: divides by max(count, 1) instead of guarding
DeriveRatesUnguarded(m) ==
    [m EXCEPT
       !.avg_time_per_image_ms =
           FDiv(FMul(m.wall_time_sec, Thousand),
                FFromInt(Max(m.images_processed, 1))),
       !.cycles_per_image =
           FDiv(FFromBig(m.cpu_cycles), FFromInt(Max(m.images_processed, 1))),
       !.avg_time_per_pixel_ns =
           FDiv(FMul(m.wall_time_sec, Billion),
                FFromInt(Max(m.total_pixels, 1))),
       !.cycles_per_pixel =
           FDiv(FFromBig(m.cpu_cycles), FFromInt(Max(m.total_pixels, 1)))]

\* per-image and per-pixel averages, 0 when the count is not positive
DeriveRates(m) ==
    [m EXCEPT
       !.avg_time_per_image_ms =
           IF m.images_processed > 0
           THEN FDiv(FMul(m.wall_time_sec, Thousand),
                     FFromInt(m.images_processed))
           ELSE FZero,
       !.cycles_per_image =
           IF m.images_processed > 0
           THEN FDiv(FFromBig(m.cpu_cycles), FFromInt(m.images_processed))
           ELSE FZero,
       !.avg_time_per_pixel_ns =
           IF m.total_pixels > 0
           THEN FDiv(FMul(m.wall_time_sec, Billion), FFromInt(m.total_pixels))
           ELSE FZero,
       !.cycles_per_pixel =
           IF m.total_pixels > 0
           THEN FDiv(FFromBig(m.cpu_cycles), FFromInt(m.total_pixels))
           ELSE FZero]

Half == FLit(1, 2)

\* what a conversion of a double of 2^64 or more to uint64_t may yield (the
\* behaviour is undefined): 0, as x86-64 code does, or the largest value
OutOfRangeU64 == {<< >>, BSub(TwoTo64, <<1>>)}

\* (uint64_t)x for a double x >= 0; ub is the outcome when x is out of range
U64OrElse(n, ub) == IF BCmp(n, TwoTo64) < 0 THEN n ELSE ub
ToU64(x, ub) == U64OrElse(FTruncBig(x), ub)

\* if (est_total < 0.0) est_total = 0.0
ClampNegative(x) == IF FIsNeg(x) THEN FZero ELSE x

\* (uint64_t)(cycles * (user + sys) / wall + 0.5), 0 unless wall and the CPU
\* total are positive
EstimateFromTotal(cycles, wall, cpu_total_time_sec, ub) ==
    IF FIsPos(wall) /\ FIsPos(cpu_total_time_sec)
    THEN ToU64(FAdd(ClampNegative(FMul(FFromBig(cycles),
                                       FDiv(cpu_total_time_sec, wall))),
                    Half), ub)
    ELSE << >>

EstimateTotalCycles(cycles, wall, user, sys, ub) ==
    EstimateFromTotal(cycles, wall, FAdd(user, sys), ub)

\* the estimate and its per-image and per-pixel shares
StoreEstimates(m, est) ==
    [m EXCEPT
       !.estimated_total_cycles_all_threads = est,
       !.estimated_cycles_per_image_all_threads =
           IF m.images_processed > 0
           THEN FDiv(FFromBig(est), FFromInt(m.images_processed))
           ELSE FZero,
       !.estimated_cycles_per_pixel_all_threads =
           IF m.total_pixels > 0
           THEN FDiv(FFromBig(est), FFromInt(m.total_pixels))
           ELSE FZero]

DeriveEstimates(m, ub) ==
    StoreEstimates(m, EstimateTotalCycles(m.cpu_cycles, m.wall_time_sec,
                                          m.cpu_user_time_sec,
                                          m.cpu_system_time_sec, ub))

\* the conversion (uint64_t)(est + 0.5) for the cycles and times of m is
\* defined: est + 0.5 is below 2^64, or the branch that converts is not taken
ConversionDefined(m) ==
    (FIsPos(m.wall_time_sec)
       /\ FIsPos(FAdd(m.cpu_user_time_sec, m.cpu_system_time_sec)))
    => BCmp(FTruncBig(FAdd(ClampNegative(FMul(FFromBig(m.cpu_cycles),
               FDiv(FAdd(m.cpu_user_time_sec, m.cpu_system_time_sec),
                    m.wall_time_sec))), Half)), TwoTo64) < 0

\* the outcomes of that conversion to tell apart: it has one result when it
\* is defined, and any of OutOfRangeU64 when it is not
ConversionOutcomes(m) ==
    IF ConversionDefined(m) THEN {<< >>} ELSE OutOfRangeU64

(***************************************************************************)
(* results/logs/serial_metrics.json.  A number printed with %.Nf is kept   *)
(* as its sign and its digits without the point.                           *)
(***************************************************************************)
\* a file that does not exist
NoFile == [absent |-> TRUE]

RECURSIVE Pow10(_)
Pow10(k) == IF k = 0 THEN <<1>> ELSE BMulSmall(Pow10(k - 1), 10)

\* printf("%.<digits>f", a): the decimal nearest to a, ties to even
\* the numeral of q, or of q + 1 when the discarded fraction is above one
\* half (half and rest) or exactly one half (half, no rest) with q odd
FormatRounded(a, digits, q, half, rest) ==
    [neg |-> a.s = 1,
     n |-> IF half /\ (rest \/ BBit(q, 0) = 1) THEN BAdd(q, <<1>>) ELSE q,
     scale |-> digits]

\* num = |a|'s mantissa times 10^digits, still to be scaled by 2^a.e
FormatScaled(a, digits, num) ==
    IF a.e >= 0 THEN [neg |-> a.s = 1, n |-> BShl(num, a.e), scale |-> digits]
    ELSE FormatRounded(a, digits, BShr(num, 0 - a.e),
                       BBit(num, 0 - a.e - 1) = 1,
                       ~BLowZero(num, 0 - a.e - 1))

FormatFixed(a, digits) == FormatScaled(a, digits, BMul(a.m, Pow10(digits)))

\* atof of such a numeral: the double nearest to the decimal
atof(t) == FRatio(IF t.neg THEN 1 ELSE 0, t.n, Pow10(t.scale), 0)

LLongMax == BSub(BShl(<<1>>, 63), <<1>>)

\* atoll of the %llu numeral of u: values above LLONG_MAX saturate
atoll(u) == IF BCmp(u, LLongMax) > 0 THEN LLongMax ELSE u

write_serial_metrics_json(m) ==
    [images_processed      |-> m.images_processed,
     total_pixels          |-> m.total_pixels,
     wall_time_sec         |-> FormatFixed(m.wall_time_sec, 9),
     cpu_user_time_sec     |-> FormatFixed(m.cpu_user_time_sec, 9),
     cpu_system_time_sec   |-> FormatFixed(m.cpu_system_time_sec, 9),
     avg_time_per_image_ms |-> FormatFixed(m.avg_time_per_image_ms, 6),
     avg_time_per_pixel_ns |-> FormatFixed(m.avg_time_per_pixel_ns, 6),
     cpu_cycles            |-> m.cpu_cycles,
     cycles_per_image      |-> FormatFixed(m.cycles_per_image, 3),
     cycles_per_pixel      |-> FormatFixed(m.cycles_per_pixel, 3),
     max_width             |-> m.max_width,
     max_height            |-> m.max_height]

\* the Metrics read from the text buf of the file: *out zeroed, then the
\* fields extracted; the key "cpu_cycles_tsc" is not in the file, so the
\* cycles come from "cpu_cycles"
ExtractMetrics(buf) ==
    [ZeroMetrics EXCEPT
       !.images_processed      = buf.images_processed,
       !.total_pixels          = buf.total_pixels,
       !.wall_time_sec         = atof(buf.wall_time_sec),
       !.cpu_user_time_sec     = atof(buf.cpu_user_time_sec),
       !.cpu_system_time_sec   = atof(buf.cpu_system_time_sec),
       !.avg_time_per_image_ms = atof(buf.avg_time_per_image_ms),
       !.avg_time_per_pixel_ns = atof(buf.avg_time_per_pixel_ns),
       !.cpu_cycles            = atoll(buf.cpu_cycles),
       !.cycles_per_image      = atof(buf.cycles_per_image),
       !.cycles_per_pixel      = atof(buf.cycles_per_pixel),
       !.max_width             = buf.max_width,
       !.max_height            = buf.max_height]

\* f is what fopen(json_path, "r") gave: NoFile when the file is missing or
\* cannot be read, and then the function returns 0 and leaves *out as it
\* was; else it returns 1 with the Metrics read in *out
load_serial_metrics(f, out) ==
    IF f = NoFile THEN [rc |-> 0, out |-> out]
    ELSE [rc |-> 1, out |-> ExtractMetrics(f)]

(***************************************************************************)
(* The comparison of the two runs (parallel.c main and write_compare_json) *)
(***************************************************************************)
\* a faulty variant of GuardedRatio: only the denominator is tested
GuardedRatioDenominatorOnly(a, b) == IF FIsPos(b) THEN FDiv(a, b) ELSE FZero

\* a / b when both are positive, else 0
GuardedRatio(a, b) == IF FIsPos(a) /\ FIsPos(b) THEN FDiv(a, b) ELSE FZero

\* main's own estimate of the total cycles of a run: with factor =
\* cpu_time / wall and est = cycles * factor, raised to 0 if negative, it is
\* (uint64_t)(est + 0.5); 0 unless wall and cpu_time are positive
EstimateInMain(cycles, wall, cpu_time, ub) ==
    IF FIsPos(wall) /\ FIsPos(cpu_time)
    THEN ToU64(FAdd(ClampNegative(FMul(FFromBig(cycles),
                                       FDiv(cpu_time, wall))), Half), ub)
    ELSE << >>

\* serial_cpu_time and parallel_cpu_time of main, and the estimate from them
RecomputeEstimate(m, ub) ==
    EstimateInMain(m.cpu_cycles, m.wall_time_sec,
                   FAdd(m.cpu_user_time_sec, m.cpu_system_time_sec), ub)

\* pixels per second of a run, 0 without pixels or wall time
PixelsPerSec(m) ==
    IF m.total_pixels > 0 /\ FIsPos(m.wall_time_sec)
    THEN FDiv(FFromInt(m.total_pixels), m.wall_time_sec) ELSE FZero

\* a faulty variant of SpeedupPixelsPerSec: the ratio taken the other way round
SpeedupPixelsPerSecInverted(serial_pps, parallel_pps) ==
    IF FIsPos(serial_pps) /\ FIsPos(parallel_pps)
    THEN FDiv(serial_pps, parallel_pps) ELSE FZero

SpeedupPixelsPerSec(serial_pps, parallel_pps) ==
    IF FIsPos(serial_pps) /\ FIsPos(parallel_pps)
    THEN FDiv(parallel_pps, serial_pps) ELSE FZero

\* (user + sys) / wall, 0 without wall time
CpuUtilization(m) ==
    IF FIsPos(m.wall_time_sec)
    THEN FDiv(FAdd(m.cpu_user_time_sec, m.cpu_system_time_sec),
              m.wall_time_sec)
    ELSE FZero

\* the Comparison struct as main fills it; serial_pps and parallel_pps are
\* main's locals, ubs and ubp the outcomes of the two conversions to
\* uint64_t when out of range
FillComparison(s, p, speedup, serial_pps, parallel_pps, ubs, ubp) ==
    [speedup_wall_time  |-> speedup,
     speedup_cpu_user   |->
         GuardedRatio(s.cpu_user_time_sec, p.cpu_user_time_sec),
     speedup_cpu_system |->
         GuardedRatio(s.cpu_system_time_sec, p.cpu_system_time_sec),
     speedup_pixels_per_sec |-> SpeedupPixelsPerSec(serial_pps, parallel_pps),
     parallel_efficiency |->
         IF FIsPos(speedup) /\ p.threads_used > 0
         THEN FDiv(speedup, FFromInt(p.threads_used)) ELSE FZero,
     serial_est_total_cycles_all_threads |-> RecomputeEstimate(s, ubs),
     parallel_est_total_cycles_all_threads |-> RecomputeEstimate(p, ubp)]

Compare(s, p, ubs, ubp) ==
    FillComparison(s, p, GuardedRatio(s.wall_time_sec, p.wall_time_sec),
                   PixelsPerSec(s), PixelsPerSec(p), ubs, ubp)

\* (Comparison){0}
ZeroComparison ==
    [speedup_wall_time |-> FZero, speedup_cpu_user |-> FZero,
     speedup_cpu_system |-> FZero, speedup_pixels_per_sec |-> FZero,
     parallel_efficiency |-> FZero,
     serial_est_total_cycles_all_threads |-> << >>,
     parallel_est_total_cycles_all_threads |-> << >>]

\* the object "comparison" of results/logs/compare_metrics.json: the fields
\* of cmp and the throughput and CPU utilization of each run, which
\* write_compare_json computes itself, the doubles printed with %.6f
write_compare_json(serial, parallel, c) ==
    [speedup_wall_time        |-> FormatFixed(c.speedup_wall_time, 6),
     speedup_cpu_user         |-> FormatFixed(c.speedup_cpu_user, 6),
     speedup_cpu_system       |-> FormatFixed(c.speedup_cpu_system, 6),
     speedup_pixels_per_sec   |-> FormatFixed(c.speedup_pixels_per_sec, 6),
     parallel_efficiency      |-> FormatFixed(c.parallel_efficiency, 6),
     serial_pixels_per_sec    |-> FormatFixed(PixelsPerSec(serial), 6),
     parallel_pixels_per_sec  |-> FormatFixed(PixelsPerSec(parallel), 6),
     serial_cpu_utilization   |-> FormatFixed(CpuUtilization(serial), 6),
     parallel_cpu_utilization |-> FormatFixed(CpuUtilization(parallel), 6),
     serial_est_total_cycles_all_threads |->
         c.serial_est_total_cycles_all_threads,
     parallel_est_total_cycles_all_threads |->
         c.parallel_est_total_cycles_all_threads]

(***************************************************************************)
(* The input directory and the clock of a benchmark run.                   *)
(***************************************************************************)
MaxFiles == 2
NumThreads == 2
BlurRadius == 2

\* a + n * 10^8 for limbs a
PlusE8(a, n) == BAdd(a, BMul(BFromInt(n), BFromInt(100000000)))

\* readings of the clocks at three instants, in order of time; a timed
\* region ends at the reading it began at or at the next one
ClockReadings ==
    <<[sec |-> 100, nsec |-> 250000000, usec |-> <<0, 10000>>,
       ssec |-> <<0, 2000>>, tsc |-> BFromInt(1000)],
      [sec |-> 102, nsec |-> 750000000, usec |-> <<4, 510000>>,
       ssec |-> <<0, 502000>>, tsc |-> PlusE8(BFromInt(1000), 75)],
      [sec |-> 103, nsec |-> 0, usec |-> <<4, 900000>>,
       ssec |-> <<0, 600000>>, tsc |-> PlusE8(BFromInt(1000), 83)]>>

ClockAfter(t) == {u \in 1..Len(ClockReadings) : t <= u /\ u <= t + 1}

\* directory entries: a file that is no image by its name, an image file the
\* decoder rejects (content NullImage), and image files holding the RGB
\* picture they decode to.  The
\* entries "." and ".." are left out: both loops skip them first.  A file
\* name is the string of its ASCII codes.
DirEntries ==
    {[name |-> <<110, 111, 116, 101, 115, 46, 116, 120, 116>>,  \* notes.txt
      content |-> NullImage],
     [name |-> <<98, 114, 111, 107, 101, 110, 46, 112, 110, 103>>,
      content |-> NullImage],                                  \* broken.png
     [name |-> <<119, 105, 100, 101, 46, 112, 110, 103>>,       \* wide.png
      content |-> PatternImage(2, 1, 3, 1, 1, 0)],
     [name |-> <<116, 97, 108, 108, 46, 74, 80, 71>>,           \* tall.JPG
      content |-> PatternImage(1, 2, 3, 2, 0, 1)]}

RECURSIVE SeqsUpTo(_, _)
SeqsUpTo(S, n) ==
    IF n = 0 THEN {<< >>}
    ELSE LET shorter == SeqsUpTo(S, n - 1)
         IN  shorter \cup {Append(q, x) : q \in shorter, x \in S}

\* tolower in the C locale: A..Z become a..z
tolower(ch) == IF ch >= 65 /\ ch <= 90 THEN ch + 32 ELSE ch

\* the character of a string at its head, the terminating 0 at its end
CharAt(s) == IF s = << >> THEN 0 ELSE tolower(Head(s))

\* strcasecmp: 0 when the strings are equal ignoring case, else the
\* difference of the first two characters that differ when lower-cased
RECURSIVE strcasecmp(_, _)
strcasecmp(s1, s2) ==
    IF s1 = << >> /\ s2 = << >> THEN 0
    ELSE IF CharAt(s1) # CharAt(s2) THEN CharAt(s1) - CharAt(s2)
    ELSE strcasecmp(Tail(s1), Tail(s2))

\* the last strlen(ext) characters of name equal ext ignoring case
ends_with(name, ext) ==
    /\ Len(name) >= Len(ext)
    /\ strcasecmp(SubSeq(name, Len(name) - Len(ext) + 1, Len(name)), ext) = 0

\* the name ends with .png, .jpg, .jpeg or .bmp
is_image_file(entry) ==
    \/ ends_with(entry.name, <<46, 112, 110, 103>>)
    \/ ends_with(entry.name, <<46, 106, 112, 103>>)
    \/ ends_with(entry.name, <<46, 106, 112, 101, 103>>)
    \/ ends_with(entry.name, <<46, 98, 109, 112>>)

\* 0 when the PNG is written, -1 without an image or when writing fails
save_image_png(img, writable) ==
    IF img = NullImage \/ img.data = << >> THEN -1
    ELSE IF writable THEN 0 ELSE -1

\* the Image stbi_load decodes (always 3 channels), NullImage on failure
load_image(entry) ==
    IF entry.content = NullImage THEN NullImage
    ELSE [width |-> entry.content.width, height |-> entry.content.height,
          channels |-> 3, data |-> entry.content.data]

\* a faulty variant of LoadAndAccount: a failed load is accounted too
LoadAndAccountAlways(acc, loaded) == Account(acc, loaded)

\* a failed load is skipped, a loaded image is accounted
LoadAndAccount(acc, loaded) ==
    IF loaded = NullImage THEN acc ELSE Account(acc, loaded)

\* grayscale, box blur and Sobel on the image in flight
RunPipeline(img, uninit) ==
    apply_sobel_edge(apply_box_blur(apply_grayscale(img), BlurRadius), uninit)

\* the pipeline up to the allocation of out in apply_sobel_edge: the image
\* after grayscale and box blur, and the values of its interior pixels
BeforeCopy(blurred) ==
    [blurred |-> blurred,
     edges |-> IF SobelGuard(blurred) THEN << >> ELSE SobelGradient(blurred)]
Prepare(img) == BeforeCopy(apply_box_blur(apply_grayscale(img), BlurRadius))

\* Prepare of each picture of DirEntries, computed once
Prepared ==
    LET loadable == {load_image(e) : e \in DirEntries} \ {NullImage}
        t == [im \in loadable |-> Prepare(im)]
    IN  IF t = << >> THEN << >> ELSE t

\* the rest of apply_sobel_edge: out, the k-th allocation, is copied
FinishPipeline(p, k) ==
    IF SobelGuard(p.blurred) THEN p.blurred
    ELSE SobelCopy(p.blurred, p.edges,
                   Uninit(k, p.blurred.width * p.blurred.height))

\* RunPipeline with out as the k-th allocation
PipelineOn(img, k) ==
    IF img \in DOMAIN Prepared THEN FinishPipeline(Prepared[img], k)
    ELSE RunPipeline(img, Uninit(k, img.width * img.height))

\* the number of allocations of out after n of them and the pipeline on img
AllocsAfter(img, n) == IF SobelGuard(img) THEN n ELSE n + 1

\* private copies of the reduction variables: 0 for +, INT_MIN for max
IntMin == -2147483647 - 1
PrivateCounts ==
    [images_processed |-> 0, total_pixels |-> 0, max_width |-> IntMin,
     max_height |-> IntMin]

RECURSIVE FoldCounts(_, _, _)
FoldCounts(acc, privs, t) ==
    IF t = 0 THEN acc
    ELSE FoldCounts(
           [images_processed |-> acc.images_processed + privs[t].images_processed,
            total_pixels     |-> acc.total_pixels + privs[t].total_pixels,
            max_width        |-> Max(acc.max_width, privs[t].max_width),
            max_height       |-> Max(acc.max_height, privs[t].max_height)],
           privs, t - 1)

\* a faulty variant of ReduceCounts: only the last thread's copies are kept
ReduceCountsLastThread(shared, privs) ==
    FoldCounts(shared, [t \in {1} |-> privs[NumThreads]], 1)

\* the reduction at the end of the parallel loop: the private copies are
\* combined with the values the variables had before it
ReduceCounts(shared, privs) == FoldCounts(shared, privs, NumThreads)

NoImage == [i |-> 0, image |-> NullImage]

\* What a run has done with the directory entries so far: for each entry
\* how often load_image, the pipeline, save_image_png and free_image were
\* called for it, whether its Image is allocated (held), whether a call found
\* no allocated Image (stale) or came while the timers were not running
\* (untimed), and the threads that made the calls (0 is the serial program);
\* timer tells whether the start and the end samples have been taken,
\* readdir and closedir what timer was when the entry was read from the
\* directory and when the directory was closed ("never": not yet).
NoCalls == [load |-> 0, pipeline |-> 0, save |-> 0, free |-> 0]
NoOps ==
    [n |-> NoCalls, held |-> FALSE, stale |-> FALSE, untimed |-> FALSE,
     by |-> {}]
IdleLog(entries) ==
    [timer |-> "unset", ops |-> [i \in 1..Len(entries) |-> NoOps],
     readdir |-> [i \in 1..Len(entries) |-> "never"], closedir |-> "never"]

\* the call op on entry i by thread t; ok tells whether a load succeeded
LogOp(log, i, op, ok, t) ==
    [log EXCEPT !.ops[i] =
        [n       |-> [@.n EXCEPT ![op] = @ + 1],
         held    |-> IF op = "load" THEN ok
                     ELSE IF op = "free" THEN FALSE ELSE @.held,
         stale   |-> @.stale \/ (op # "load" /\ ~@.held),
         untimed |-> @.untimed \/ log.timer # "running",
         by      |-> @.by \cup {t}]]

\* readdir gives entry i; readdir gives all entries, one after the other;
\* closedir
LogReaddir(log, i) == [log EXCEPT !.readdir[i] = log.timer]
LogReaddirAll(log) ==
    [log EXCEPT !.readdir = [i \in DOMAIN log.readdir |-> log.timer]]
LogClosedir(log) == [log EXCEPT !.closedir = log.timer]

StartTimers(log) == [log EXCEPT !.timer = "running"]
EndTimers(log) == [log EXCEPT !.timer = "stopped"]
IdleWorker == [pc |-> "idle", i |-> 0, image |-> NullImage, counts |-> PrivateCounts]

VARIABLES orig, image, twin, pre, calls,
          dir, now, allocs,
          spc, sent, simg, sbefore, metrics, sout, json, slog,
          ppc, files, pbefore, claimed, wk, pm, pout, sm, cmp, compare_json,
          plog

fvars == <<orig, image, twin, pre, calls>>
svars == <<spc, sent, simg, sbefore, metrics, sout, json, slog>>
pvars ==
    <<ppc, files, pbefore, claimed, wk, pm, pout, sm, cmp, compare_json, plog>>
hvars == <<dir, now, allocs, svars, pvars>>
vars == <<fvars, hvars>>

\* the values of the variables a specification does not use
FilterIdle ==
    /\ orig = NullImage /\ image = NullImage /\ twin = NullImage
    /\ pre = NullImage /\ calls = << >>
SerialIdle ==
    /\ spc = "start" /\ sent = 1 /\ simg = NoImage /\ sbefore = ClockReadings[1]
    /\ metrics = ZeroMetrics /\ sout = {} /\ json = NoFile
    /\ slog = IdleLog(dir.entries)
ParallelIdle ==
    /\ ppc = "start" /\ files = << >> /\ pbefore = ClockReadings[1]
    /\ claimed = {} /\ wk = [t \in 1..NumThreads |-> IdleWorker]
    /\ pm = ZeroMetrics /\ pout = {} /\ sm = ZeroMetrics /\ cmp = ZeroComparison
    /\ compare_json = NoFile
    /\ plog = IdleLog(dir.entries)
HarnessIdle ==
    /\ dir = [opens |-> FALSE, entries |-> << >>] /\ now = 1
    /\ SerialIdle /\ ParallelIdle

\* position of a filter in the pipeline grayscale -> box_blur -> sobel_edge
PipelineIndex(f) ==
    IF f = "apply_grayscale" THEN 1 ELSE IF f = "apply_box_blur" THEN 2 ELSE 3

Stage == IF calls = << >> THEN 0 ELSE PipelineIndex(calls[Len(calls)].f)
LastCall == calls[Len(calls)]

(***************************************************************************)
(* The filters applied to one image.  image is that image, twin a second   *)
(* execution of the same calls on the same input, pre the image on entry   *)
(* to the last call.  A filter may be called alone or after filters that   *)
(* precede it in the pipeline.                                             *)
(***************************************************************************)
FilterInit ==
    /\ orig \in InputImages
    /\ image = orig
    /\ twin = orig
    /\ pre = orig
    /\ calls = << >>
    /\ HarnessIdle
    /\ allocs = 0

CallGrayscale ==
    /\ Stage < 1
    /\ image' = apply_grayscale(image)
    /\ twin' = apply_grayscale(twin)
    /\ pre' = image
    /\ calls' = Append(calls, [f |-> "apply_grayscale", radius |-> 0])
    /\ UNCHANGED <<orig, hvars>>

CallBoxBlur ==
    /\ Stage < 2
    /\ \E radius \in (-1)..MaxRadius :
         /\ image' = apply_box_blur(image, radius)
         /\ twin' = apply_box_blur(twin, radius)
         /\ calls' = Append(calls, [f |-> "apply_box_blur", radius |-> radius])
    /\ pre' = image
    /\ UNCHANGED <<orig, hvars>>

CallSobelEdge ==
    /\ Stage < 3
    /\ IF SobelGuard(image)
       THEN UNCHANGED <<image, twin, allocs>>
       ELSE /\ image' = apply_sobel_edge(image,
                           Uninit(allocs + 1, image.width * image.height))
            /\ twin' = apply_sobel_edge(twin,
                           Uninit(allocs + 2, twin.width * twin.height))
            /\ allocs' = allocs + 2
    /\ pre' = image
    /\ calls' = Append(calls, [f |-> "apply_sobel_edge", radius |-> 0])
    /\ UNCHANGED <<orig, dir, now, svars, pvars>>

FilterNext == CallGrayscale \/ CallBoxBlur \/ CallSobelEdge

FilterSpec == FilterInit /\ [][FilterNext]_vars


(***************************************************************************)
(* The benchmark: the serial program (serial.c) runs over the directory,   *)
(* then the parallel program (parallel.c) runs over the same directory and *)
(* compares itself with the serial run.  sout and pout hold what a run     *)
(* leaves outside: output files written and diagnostics, by entry index.   *)
(***************************************************************************)
HarnessInit ==
    /\ FilterIdle
    /\ dir \in [opens : BOOLEAN, entries : SeqsUpTo(DirEntries, MaxFiles)]
    /\ now = 1
    /\ allocs = 0
    /\ SerialIdle
    /\ ParallelIdle

\* a faulty variant of SerialStart: the result of opendir is not tested
SerialStartUnchecked ==
    /\ spc = "start"
    /\ metrics' = ZeroMetrics
    /\ sbefore' = ClockReadings[now] /\ spc' = "loop"
    /\ slog' = StartTimers(slog)
    /\ UNCHANGED <<fvars, dir, allocs, now, sent, simg, sout, json,
                   pvars>>

\* process_directory_serial up to the loop
SerialStart ==
    /\ spc = "start"
    /\ metrics' = ZeroMetrics
    /\ IF dir.opens
       THEN /\ sbefore' = ClockReadings[now] /\ spc' = "loop"
            /\ slog' = StartTimers(slog)
       ELSE spc' = "json" /\ UNCHANGED <<sbefore, slog>>
    /\ UNCHANGED <<fvars, dir, allocs, now, sent, simg, sout, json,
                   pvars>>

\* one readdir: the entry is skipped, or loaded and accounted
SerialNext ==
    /\ spc = "loop" /\ sent <= Len(dir.entries)
    /\ LET entry  == dir.entries[sent]
           loaded == load_image(entry)
       IN  IF ~is_image_file(entry)
           THEN /\ slog' = LogReaddir(slog, sent)
                /\ UNCHANGED <<spc, simg, metrics, sout>>
           ELSE /\ metrics' = LoadAndAccount(metrics, loaded)
                /\ slog' = LogOp(LogReaddir(slog, sent), sent, "load",
                                 loaded # NullImage, 0)
                /\ IF loaded = NullImage
                   THEN /\ sout' = sout \cup {<<"load failed", sent>>}
                        /\ UNCHANGED <<spc, simg>>
                   ELSE /\ simg' = [i |-> sent, image |-> loaded]
                        /\ spc' = "filter"
                        /\ UNCHANGED sout
    /\ sent' = sent + 1
    /\ UNCHANGED <<fvars, dir, allocs, now, sbefore, json, pvars>>

SerialFilter ==
    /\ spc = "filter"
    /\ simg' = [simg EXCEPT !.image = PipelineOn(simg.image, allocs + 1)]
    /\ allocs' = AllocsAfter(simg.image, allocs)
    /\ slog' = LogOp(slog, simg.i, "pipeline", TRUE, 0)
    /\ spc' = "save"
    /\ UNCHANGED <<fvars, dir, now, sent, sbefore, metrics, sout, json,
                   pvars>>

\* a faulty variant of SerialSave: a failed save is attempted a second time
SerialSaveRetry ==
    /\ spc = "save"
    /\ \E writable \in BOOLEAN :
         LET failed == save_image_png(simg.image, writable) # 0
         IN  /\ sout' = sout \cup
                   {<<IF failed THEN "save failed" ELSE "written", simg.i>>}
             /\ spc' = IF failed /\ slog.ops[simg.i].n.save = 0
                       THEN "save" ELSE "free"
    /\ slog' = LogOp(slog, simg.i, "save", TRUE, 0)
    /\ UNCHANGED <<fvars, dir, allocs, now, sent, simg, sbefore, metrics,
                   json, pvars>>

SerialSave ==
    /\ spc = "save"
    /\ \E writable \in BOOLEAN :
         sout' = sout \cup
            {<<IF save_image_png(simg.image, writable) # 0
               THEN "save failed" ELSE "written", simg.i>>}
    /\ slog' = LogOp(slog, simg.i, "save", TRUE, 0)
    /\ spc' = "free"
    /\ UNCHANGED <<fvars, dir, allocs, now, sent, simg, sbefore, metrics,
                   json, pvars>>

SerialFree ==
    /\ spc = "free"
    /\ simg' = NoImage
    /\ slog' = LogOp(slog, simg.i, "free", TRUE, 0)
    /\ spc' = "loop"
    /\ UNCHANGED <<fvars, dir, allocs, now, sent, sbefore, metrics, sout,
                   json, pvars>>

\* the end of the directory: closedir, timers stopped, rates derived
SerialStop ==
    /\ spc = "loop" /\ sent > Len(dir.entries)
    /\ \E t \in ClockAfter(now) :
         /\ now' = t
         /\ metrics' = DeriveRates(StopTimers(metrics, metrics, sbefore,
                                              ClockReadings[t]))
    /\ slog' = EndTimers(LogClosedir(slog))
    /\ spc' = "json"
    /\ UNCHANGED <<fvars, dir, allocs, sent, simg, sbefore, sout, json,
                   pvars>>

\* main of the serial program after process_directory_serial: the metrics
\* file is written unless it cannot be opened for writing, which leaves
\* what was there and a message
SerialReport ==
    /\ spc = "json"
    /\ \E opened \in BOOLEAN :
         IF opened
         THEN json' = write_serial_metrics_json(metrics) /\ UNCHANGED sout
         ELSE sout' = sout \cup {<<"metrics not written", 0>>}
              /\ UNCHANGED json
    /\ spc' = "exit"
    /\ UNCHANGED <<fvars, dir, allocs, now, sent, simg, sbefore, metrics,
                   slog, pvars>>


\* indices of the entries the first loop of process_directory_parallel keeps
RECURSIVE CollectFiles(_, _)
CollectFiles(entries, n) ==
    IF n = 0 THEN << >>
    ELSE IF is_image_file(entries[n])
         THEN Append(CollectFiles(entries, n - 1), n)
         ELSE CollectFiles(entries, n - 1)

\* process_directory_parallel up to the parallel loop: the directory is
\* read to its end and closed, then the timers are started; it returns early
\* when the directory does not open or holds no image file
ParallelStart ==
    /\ ppc = "start" /\ spc = "exit"
    /\ LET found == IF dir.opens
                    THEN CollectFiles(dir.entries, Len(dir.entries))
                    ELSE << >>
           listed == IF dir.opens THEN LogClosedir(LogReaddirAll(plog))
                     ELSE plog
       IN  /\ files' = found
           /\ IF found = << >>
              THEN /\ pm' = ZeroMetrics
                   /\ ppc' = "report"
                   /\ plog' = listed
                   /\ UNCHANGED pbefore
              ELSE /\ pm' = [ZeroMetrics EXCEPT !.threads_used = NumThreads]
                   /\ pbefore' = ClockReadings[now]
                   /\ plog' = StartTimers(listed)
                   /\ ppc' = "loop"
    /\ wk' = [t \in 1..NumThreads |-> IdleWorker]
    /\ UNCHANGED <<fvars, dir, allocs, now, svars, claimed, pout, sm,
                   cmp, compare_json>>

\* a thread takes an iteration of the loop: load and accounting on its
\* private copies
WorkerLoad(t) ==
    /\ ppc = "loop" /\ wk[t].pc = "idle"
    /\ \E i \in (1..Len(files)) \ claimed :
         LET loaded == load_image(dir.entries[files[i]])
             counts == LoadAndAccount(wk[t].counts, loaded)
         IN  /\ claimed' = claimed \cup {i}
             /\ plog' = LogOp(plog, files[i], "load", loaded # NullImage, t)
             /\ IF loaded = NullImage
                THEN /\ wk' = [wk EXCEPT ![t].counts = counts]
                     /\ pout' = pout \cup {<<"load failed", files[i]>>}
                ELSE /\ wk' = [wk EXCEPT ![t] =
                                 [pc |-> "filter", i |-> files[i],
                                  image |-> loaded, counts |-> counts]]
                     /\ UNCHANGED pout
    /\ UNCHANGED <<fvars, dir, allocs, now, svars, ppc, files, pbefore,
                   pm, sm, cmp, compare_json>>

WorkerFilter(t) ==
    /\ ppc = "loop" /\ wk[t].pc = "filter"
    /\ wk' = [wk EXCEPT ![t].image = PipelineOn(wk[t].image, allocs + 1),
                        ![t].pc = "save"]
    /\ allocs' = AllocsAfter(wk[t].image, allocs)
    /\ plog' = LogOp(plog, wk[t].i, "pipeline", TRUE, t)
    /\ UNCHANGED <<fvars, dir, now, svars, ppc, files, pbefore,
                   claimed, pm, pout, sm, cmp, compare_json>>

\* a faulty variant of WorkerSave: a failed save ends the iteration at once
WorkerSaveLeaks(t) ==
    /\ ppc = "loop" /\ wk[t].pc = "save"
    /\ \E writable \in BOOLEAN :
         LET failed == save_image_png(wk[t].image, writable) # 0
         IN  /\ pout' = pout \cup
                   {<<IF failed THEN "save failed" ELSE "written", wk[t].i>>}
             /\ wk' = IF failed
                      THEN [wk EXCEPT ![t].pc = "idle", ![t].i = 0,
                                      ![t].image = NullImage]
                      ELSE [wk EXCEPT ![t].pc = "free"]
    /\ plog' = LogOp(plog, wk[t].i, "save", TRUE, t)
    /\ UNCHANGED <<fvars, dir, allocs, now, svars, ppc, files, pbefore,
                   claimed, pm, sm, cmp, compare_json>>

WorkerSave(t) ==
    /\ ppc = "loop" /\ wk[t].pc = "save"
    /\ \E writable \in BOOLEAN :
         pout' = pout \cup
            {<<IF save_image_png(wk[t].image, writable) # 0
               THEN "save failed" ELSE "written", wk[t].i>>}
    /\ wk' = [wk EXCEPT ![t].pc = "free"]
    /\ plog' = LogOp(plog, wk[t].i, "save", TRUE, t)
    /\ UNCHANGED <<fvars, dir, allocs, now, svars, ppc, files, pbefore,
                   claimed, pm, sm, cmp, compare_json>>

WorkerFree(t) ==
    /\ ppc = "loop" /\ wk[t].pc = "free"
    /\ wk' = [wk EXCEPT ![t].pc = "idle", ![t].i = 0, ![t].image = NullImage]
    /\ plog' = LogOp(plog, wk[t].i, "free", TRUE, t)
    /\ UNCHANGED <<fvars, dir, allocs, now, svars, ppc, files, pbefore,
                   claimed, pm, pout, sm, cmp, compare_json>>

\* the end of the loop: reduction, timers stopped, rates and estimates
ParallelStop ==
    /\ ppc = "loop" /\ claimed = 1..Len(files)
    /\ \A t \in 1..NumThreads : wk[t].pc = "idle"
    /\ \E tick \in ClockAfter(now) :
         LET stopped == StopTimers(pm,
                            ReduceCounts(ZeroCounts,
                                [t \in 1..NumThreads |-> wk[t].counts]),
                            pbefore, ClockReadings[tick])
         IN  /\ now' = tick
             /\ \E ub \in ConversionOutcomes(stopped) :
                  pm' = DeriveEstimates(DeriveRates(stopped), ub)
    /\ plog' = EndTimers(plog)
    /\ ppc' = "report"
    /\ UNCHANGED <<fvars, dir, allocs, svars, files, pbefore, claimed,
                   wk, pout, sm, cmp, compare_json>>

\* main of the parallel program after process_directory_parallel.  When
\* load_serial_metrics returns 1 the Comparison is filled and
\* write_compare_json writes it, unless the file cannot be opened for
\* writing; when it returns 0 there is no comparison, only a message.  Each
\* of the two conversions to uint64_t has its own outcome when out of range.
ParallelReport ==
    /\ ppc = "report"
    /\ \E readable \in BOOLEAN :
         LET got == load_serial_metrics(IF readable THEN json ELSE NoFile, sm)
         IN  /\ sm' = got.out
             /\ IF got.rc = 0
                THEN /\ pout' = pout \cup {<<"no serial metrics", 0>>}
                     /\ UNCHANGED <<cmp, compare_json>>
                ELSE /\ \E ubs \in ConversionOutcomes(sm'),
                           ubp \in ConversionOutcomes(pm) :
                          cmp' = Compare(sm', pm, ubs, ubp)
                     /\ \E opened \in BOOLEAN :
                          IF opened
                          THEN /\ compare_json' =
                                      write_compare_json(sm', pm, cmp')
                               /\ UNCHANGED pout
                          ELSE /\ pout' =
                                      pout \cup {<<"compare not written", 0>>}
                               /\ UNCHANGED compare_json
    /\ ppc' = "exit"
    /\ UNCHANGED <<fvars, dir, allocs, now, svars, files, pbefore,
                   claimed, wk, pm, plog>>

HarnessNext ==
    \/ SerialStart \/ SerialNext \/ SerialFilter \/ SerialSave \/ SerialFree
    \/ SerialStop \/ SerialReport
    \/ ParallelStart
    \/ \E t \in 1..NumThreads :
         WorkerLoad(t) \/ WorkerFilter(t) \/ WorkerSave(t) \/ WorkerFree(t)
    \/ ParallelStop \/ ParallelReport

HarnessSpec == HarnessInit /\ [][HarnessNext]_vars

\* both programs run to their end: a process that can take a step takes one,
\* and the threads of the OpenMP team are scheduled until the loop is done
\* the steps of the two loops, and of the code before them
LoopSteps ==
    \/ SerialStart \/ SerialNext \/ SerialFilter \/ SerialSave \/ SerialFree
    \/ ParallelStart
    \/ \E t \in 1..NumThreads :
         WorkerLoad(t) \/ WorkerFilter(t) \/ WorkerSave(t) \/ WorkerFree(t)

\* SerialStop, SerialReport, ParallelStop and ParallelReport as moves of the
\* two program counters: what has to hold for control to leave the loop or
\* main, and where it goes
ReturnSteps ==
    \/ /\ spc = "loop" /\ sent > Len(dir.entries)
       /\ spc' = "json" /\ ppc' = ppc
    \/ /\ spc = "json"
       /\ spc' = "exit" /\ ppc' = ppc
    \/ /\ ppc = "loop" /\ claimed = 1..Len(files)
       /\ \A t \in 1..NumThreads : wk[t].pc = "idle"
       /\ ppc' = "report" /\ spc' = spc
    \/ /\ ppc = "report"
       /\ ppc' = "exit" /\ spc' = spc

HarnessFairSpec ==
    HarnessSpec /\ WF_vars(LoopSteps) /\ WF_<<spc, ppc>>(ReturnSteps)

(***************************************************************************)
(* The metrics derivation and the comparison as functions of what a run    *)
(* measured: counters and clock readings drawn from samples, the clocks    *)
(* read as zero when the run began.                                        *)
(***************************************************************************)
ZeroClock ==
    [sec |-> 0, nsec |-> 0, usec |-> <<0, 0>>, ssec |-> <<0, 0>>,
     tsc |-> << >>]

SampleCounts ==
    {ZeroCounts,
     [images_processed |-> 1, total_pixels |-> 1, max_width |-> 1,
      max_height |-> 1],
     [images_processed |-> 3, total_pixels |-> 7, max_width |-> 3,
      max_height |-> 2],
     [images_processed |-> 4, total_pixels |-> 1000000, max_width |-> 500,
      max_height |-> 500]}

\* clock readings at the end of a run: 10 s and 2.5 s runs, a run of 2^53 + 1
\* cycles, a run the clocks do not see, one of a nanosecond, one whose times
\* are no binary fractions, and one whose estimate exceeds 64 bits
SampleClocks ==
    {[sec |-> 10, nsec |-> 0, usec |-> <<8, 0>>, ssec |-> <<1, 0>>,
      tsc |-> PlusE8(<< >>, 300)],
     [sec |-> 2, nsec |-> 500000000, usec |-> <<7, 0>>,
      ssec |-> <<1, 500000>>, tsc |-> PlusE8(<< >>, 75)],
     [sec |-> 1, nsec |-> 0, usec |-> <<1, 0>>, ssec |-> <<0, 0>>,
      tsc |-> BAdd(BShl(<<1>>, 53), <<1>>)],
     ZeroClock,
     [sec |-> 0, nsec |-> 1, usec |-> <<0, 0>>, ssec |-> <<0, 0>>,
      tsc |-> BFromInt(40)],
     [sec |-> 0, nsec |-> 300000000, usec |-> <<0, 900000>>,
      ssec |-> <<0, 100000>>, tsc |-> BFromInt(123456789)],
     [sec |-> 0, nsec |-> 1000, usec |-> <<50, 0>>, ssec |-> <<0, 0>>,
      tsc |-> BShl(<<1>>, 56)]}

\* threads_used of the parallel run: the 0 the memset leaves when the run
\* returns early, a negative value, and teams of 1 and 4 threads
SampleThreads == {-1, 0, 1, 4}

\* the numeral -n / 10^scale or n / 10^scale as a file holds it
Numeral(negative, n, scale) ==
    [neg |-> negative, n |-> BFromInt(n), scale |-> scale]

\* a results/logs/serial_metrics.json found on disk with the given times (in
\* nanoseconds, all of one sign) and counts
SerialFile(negative, images, pixels, wall_ns, user_ns, sys_ns, cycles) ==
    [images_processed      |-> images,
     total_pixels          |-> pixels,
     wall_time_sec         |-> Numeral(negative, wall_ns, 9),
     cpu_user_time_sec     |-> Numeral(negative, user_ns, 9),
     cpu_system_time_sec   |-> Numeral(negative, sys_ns, 9),
     avg_time_per_image_ms |-> Numeral(negative, 1500000, 6),
     avg_time_per_pixel_ns |-> Numeral(negative, 375000, 6),
     cpu_cycles            |-> BFromInt(cycles),
     cycles_per_image      |-> Numeral(FALSE, 1000000, 3),
     cycles_per_pixel      |-> Numeral(FALSE, 250000, 3),
     max_width             |-> 2,
     max_height            |-> 2]

\* files the serial program did not write in this session: negative times,
\* negative counts with positive times, and a wall time only
SampleSerialFiles ==
    {SerialFile(TRUE, 1, 4, 1500000000, 250000000, 125000000, 1000),
     SerialFile(FALSE, -1, -4, 2000000000, 1000000000, 500000000, 1000),
     SerialFile(FALSE, 1, 4, 2000000000, 0, 0, 0)}

\* the measurements of a run between two clock readings; with the readings
\* exchanged the times are negative, which the comparison has to stand
Measured(m, acc, reading, backwards) ==
    IF backwards THEN StopTimers(m, acc, reading, ZeroClock)
    ELSE StopTimers(m, acc, ZeroClock, reading)

MetricsInit ==
    /\ FilterIdle
    /\ dir = [opens |-> TRUE, entries |-> << >>] /\ now = 1
    /\ allocs = 0
    /\ slog = IdleLog(dir.entries) /\ plog = IdleLog(dir.entries)
    /\ sent = 1 /\ simg = NoImage /\ sbefore = ZeroClock /\ sout = {}
    /\ files = << >> /\ pbefore = ZeroClock /\ claimed = {}
    /\ wk = [t \in 1..NumThreads |-> IdleWorker] /\ pout = {}
    /\ sm = ZeroMetrics /\ cmp = ZeroComparison
    /\ compare_json = NoFile
    /\ ppc = "derive"
    /\ \E c \in SampleCounts, b \in SampleClocks, th \in SampleThreads,
          backwards \in BOOLEAN :
         /\ pm = Measured([ZeroMetrics EXCEPT !.threads_used = th], c, b,
                          backwards)
         /\ \/ /\ spc = "derive" /\ json = NoFile
               /\ \E a \in SampleClocks :
                    metrics = StopTimers(ZeroMetrics, c, ZeroClock, a)
            \/ /\ spc = "exit" /\ json \in SampleSerialFiles
               /\ metrics = ZeroMetrics

\* serial.c 161-179 on the measured fields
DeriveSerialMetrics ==
    /\ spc = "derive"
    /\ metrics' = DeriveRates(metrics)
    /\ spc' = "json"
    /\ UNCHANGED <<fvars, dir, allocs, now, sent, simg, sbefore, sout,
                   json, slog, pvars>>

\* parallel.c 477-531 on the measured fields
DeriveParallelMetrics ==
    /\ ppc = "derive"
    /\ \E ub \in ConversionOutcomes(pm) :
         pm' = DeriveEstimates(DeriveRates(pm), ub)
    /\ ppc' = "report"
    /\ UNCHANGED <<fvars, dir, allocs, now, svars, files, pbefore,
                   claimed, wk, pout, sm, cmp, compare_json, plog>>

MetricsNext ==
    \/ DeriveSerialMetrics \/ SerialReport
    \/ DeriveParallelMetrics \/ ParallelReport

MetricsSpec == MetricsInit /\ [][MetricsNext]_vars


(***************************************************************************)
(* Properties of the filters (FilterSpec).                                 *)
(***************************************************************************)
HasPixels(im) == im # NullImage /\ im.data # << >> /\ im.channels >= 3
Pixels(im) == 0..(im.width * im.height - 1)
Chan(im, p, ch) == im.data[p * im.channels + ch]
OnRing(im, p) == ~Interior(im.width, im.height, p % im.width, p \div im.width)
Uniform(im) ==
    /\ HasPixels(im)
    /\ \A p \in Pixels(im) : \A ch \in 0..2 : Chan(im, p, ch) = Chan(im, 0, ch)
Called(f) == calls # << >> /\ LastCall.f = f
FullPipeline ==
    /\ Len(calls) = 3
    /\ calls[1].f = "apply_grayscale"
    /\ calls[2] = [f |-> "apply_box_blur", radius |-> 2]
    /\ calls[3].f = "apply_sobel_edge"
\* 1000 times the exact weighted sum of pixel p of im
Weighted(im, p) ==
    299 * Chan(im, p, 0) + 587 * Chan(im, p, 1) + 114 * Chan(im, p, 2)

\* C2: two executions of grayscale -> box_blur(2) -> sobel_edge on the same
\* input image end with byte-identical pixel buffers.
C2_PipelineDeterministic == FullPipeline => image = twin

\* C3: after sobel_edge every pixel of the outermost ring has the R, G, B
\* bytes it had on entry (so an image with width < 3 or height < 3 is
\* unchanged).
C3_SobelBorderUntouched ==
    (Called("apply_sobel_edge") /\ HasPixels(pre)) =>
        \A p \in Pixels(pre) : OnRing(pre, p) =>
            \A ch \in 0..2 : Chan(image, p, ch) = Chan(pre, p, ch)

\* C4 as stated: after grayscale every pixel has R = G = B =
\* floor(0.299*R0 + 0.587*G0 + 0.114*B0).
C4_GrayscaleIsFloor ==
    (Called("apply_grayscale") /\ HasPixels(pre)) =>
        \A p \in Pixels(pre) : \A ch \in 0..2 :
            Chan(image, p, ch) = Weighted(pre, p) \div 1000

\* C4 as amended: after grayscale every pixel has R = G = B = v, where v is
\* floor(0.299*R0 + 0.587*G0 + 0.114*B0) or, only when that weighted sum is
\* an integer, one less.
C4_GrayscaleWithinRounding ==
    (Called("apply_grayscale") /\ HasPixels(pre)) =>
        \A p \in Pixels(pre) : \A ch \in 0..2 :
            \/ Chan(image, p, ch) = Weighted(pre, p) \div 1000
            \/ /\ Weighted(pre, p) % 1000 = 0
               /\ Chan(image, p, ch) = (Weighted(pre, p) \div 1000) - 1

C4_Witness ==
    /\ Called("apply_grayscale") /\ HasPixels(pre)
    /\ \E p \in Pixels(pre) : Chan(image, p, 0) = (Weighted(pre, p) \div 1000) - 1
    /\ \E p \in Pixels(pre) :
         /\ Weighted(pre, p) % 1000 # 0
         /\ Chan(image, p, 0) = Weighted(pre, p) \div 1000

\* C5: box_blur with radius > 0 leaves a uniform image unchanged, for every
\* size and radius, the radius larger than the image included.
C5_BlurUniformUnchanged ==
    (Called("apply_box_blur") /\ LastCall.radius > 0 /\ Uniform(pre)) =>
        image = pre

C5_Witness ==
    /\ Called("apply_box_blur") /\ Uniform(pre)
    /\ pre.width >= 2 /\ pre.height >= 2
    /\ LastCall.radius >= pre.width /\ LastCall.radius >= pre.height
    /\ Chan(pre, 0, 0) > 0

\* C6: box_blur with radius <= 0 changes no byte of the buffer, nor width,
\* height or channels.
C6_BlurNonPositiveRadiusIdentity ==
    (Called("apply_box_blur") /\ LastCall.radius <= 0) => image = pre

C6_Witness ==
    /\ Called("apply_box_blur") /\ LastCall.radius <= 0
    /\ HasPixels(pre) /\ ~Uniform(pre)
    /\ pre.width >= 2 /\ pre.height >= 2

\* the positions of 0..(n-1) at most r away from position q
Window(q, r, n) == {j \in 0..(n - 1) : q - r <= j /\ j <= q + r}

RECURSIVE SumOver(_, _)
\* the sum of the values of the function f at the arguments S
SumOver(f, S) ==
    IF S = {} THEN 0
    ELSE LET j == CHOOSE e \in S : TRUE IN f[j] + SumOver(f, S \ {j})

\* the reference filter: the truncated mean of channel ch over the row
\* window of (x, y) in im, and over the column window of those row means
RowMean(im, r, x, y, ch) ==
    SumOver([xx \in Window(x, r, im.width) |->
                 Chan(im, y * im.width + xx, ch)], Window(x, r, im.width))
        \div Cardinality(Window(x, r, im.width))
RefBlur(im, r, x, y, ch) ==
    SumOver([yy \in Window(y, r, im.height) |-> RowMean(im, r, x, yy, ch)],
            Window(y, r, im.height))
        \div Cardinality(Window(y, r, im.height))

\* C13: box_blur with radius > 0 gives every pixel (x, y), in each of R, G,
\* B, the truncated mean over the rows max(0, y-radius)..min(height-1,
\* y+radius) of column x of the pass-1 values, a pass-1 value being the
\* truncated mean of the original bytes over the columns max(0, x-radius)..
\* min(width-1, x+radius) of its row; the divisor is the number of pixels in
\* the clamped window, and pass 2 reads pass-1 values only.
C13_BlurIsSeparableMean ==
    (Called("apply_box_blur") /\ LastCall.radius > 0 /\ HasPixels(pre)) =>
        /\ image.width = pre.width /\ image.height = pre.height
        /\ image.channels = pre.channels
        /\ \A q \in Pixels(pre) : \A ch \in 0..2 :
              Chan(image, q, ch) =
                  RefBlur(pre, LastCall.radius, q % pre.width,
                          q \div pre.width, ch)

\* a blur of radius 1 that changes a 3x3 image: the windows of the middle
\* row and column are whole, the others are cut by the border
C13_Witness ==
    /\ Called("apply_box_blur") /\ LastCall.radius = 1 /\ HasPixels(pre)
    /\ pre.width = 3 /\ pre.height = 3
    /\ image # pre
    /\ \E q \in Pixels(pre) : Chan(image, q, 0) # RowMean(pre, 1, q % 3, q \div 3, 0)

\* the luminance of pixel (x, y) of im as sobel_edge converts it
Lum(im, x, y) ==
    Luminance(Chan(im, y * im.width + x, 0), Chan(im, y * im.width + x, 1),
              Chan(im, y * im.width + x, 2))

\* the 3x3 neighbourhood of (x, y) under the horizontal kernel
\* [-1 0 1; -2 0 2; -1 0 1] and the vertical kernel [-1 -2 -1; 0 0 0; 1 2 1]
GradX(im, x, y) ==
    (Lum(im, x + 1, y - 1) + 2 * Lum(im, x + 1, y) + Lum(im, x + 1, y + 1))
    - (Lum(im, x - 1, y - 1) + 2 * Lum(im, x - 1, y) + Lum(im, x - 1, y + 1))
GradY(im, x, y) ==
    (Lum(im, x - 1, y + 1) + 2 * Lum(im, x, y + 1) + Lum(im, x + 1, y + 1))
    - (Lum(im, x - 1, y - 1) + 2 * Lum(im, x, y - 1) + Lum(im, x + 1, y - 1))
SumOfSquares(a, b) == a * a + b * b
SquaredGradient(im, x, y) == SumOfSquares(GradX(im, x, y), GradY(im, x, y))

\* sqrt(s) rounded down and rounded to the nearest integer, for s in
\* 0..(1560 * 1560 - 1) (two sums of at most 4 * 255 each give less); the
\* root is looked for among the 40 numbers of its block [40 b, 40 b + 39]
SqrtBlock(s) ==
    CHOOSE b \in 0..38 :
        (40 * b) * (40 * b) <= s /\ (40 * b + 40) * (40 * b + 40) > s
FloorSqrt(s) ==
    CHOOSE r \in (40 * SqrtBlock(s))..(40 * SqrtBlock(s) + 39) :
        r * r <= s /\ (r + 1) * (r + 1) > s
RoundSqrt(s) ==
    IF (2 * FloorSqrt(s) + 1) * (2 * FloorSqrt(s) + 1) <= 4 * s
    THEN FloorSqrt(s) + 1 ELSE FloorSqrt(s)

Min(a, b) == IF a < b THEN a ELSE b
InteriorPixels(im) == {q \in Pixels(im) : ~OnRing(im, q)}
\* R, G and B of pixel q of im are all v, a byte
GrayLevel(im, q, v) ==
    v \in 0..255 /\ \A ch \in 0..2 : Chan(im, q, ch) = v

\* C14 as stated: sobel_edge writes min(255, round(sqrt(gx^2 + gy^2))) to the
\* three channels of every interior pixel, gx and gy being the convolutions
\* of the 3x3 luminance neighbourhood with the two kernels; the value is in
\* [0, 255].
C14_SobelIsRoundedMagnitude ==
    (Called("apply_sobel_edge") /\ HasPixels(pre)) =>
        \A q \in InteriorPixels(pre) :
            GrayLevel(image, q,
                Min(255, RoundSqrt(SquaredGradient(pre, q % pre.width,
                                                   q \div pre.width))))

\* C14 as amended: the value written is min(255, floor(sqrt(gx^2 + gy^2))),
\* the square root truncated, not rounded.
C14_SobelIsTruncatedMagnitude ==
    (Called("apply_sobel_edge") /\ HasPixels(pre)) =>
        \A q \in InteriorPixels(pre) :
            GrayLevel(image, q,
                Min(255, FloorSqrt(SquaredGradient(pre, q % pre.width,
                                                   q \div pre.width))))

\* an interior pixel whose magnitude is below 255 and rounds up
C14_Witness ==
    /\ Called("apply_sobel_edge") /\ HasPixels(pre)
    /\ \E q \in InteriorPixels(pre) :
         /\ Chan(image, q, 0) < 254
         /\ Chan(image, q, 0) + 1 =
                RoundSqrt(SquaredGradient(pre, q % pre.width,
                                          q \div pre.width))


(***************************************************************************)
(* Properties of the metrics derivation and comparison (MetricsSpec).      *)
(***************************************************************************)
ParallelReturned == ppc \in {"report", "exit"}
SerialReturned == spc \in {"json", "exit"}

\* C8: when wall_time_sec > 0 and cpu_user_time_sec + cpu_system_time_sec >=
\* wall_time_sec, the stored estimated_total_cycles_all_threads is at least
\* cpu_cycles (an unsigned value is never negative).
C8_EstimateAtLeastCycles ==
    (/\ ParallelReturned
     /\ FIsPos(pm.wall_time_sec)
     /\ FCmp(FAdd(pm.cpu_user_time_sec, pm.cpu_system_time_sec),
             pm.wall_time_sec) >= 0)
    => BCmp(pm.estimated_total_cycles_all_threads, pm.cpu_cycles) >= 0

\* main has taken the branch that builds the comparison: load_serial_metrics
\* returned 1, so sm is the baseline read back and cmp is filled
ComparisonBuilt == ppc = "exit" /\ <<"no serial metrics", 0>> \notin pout

\* and write_compare_json has written it
ComparisonWritten == ComparisonBuilt /\ compare_json # NoFile

\* the comparison scenario: baseline {wall 10.0, user 8, sys 1, 1000000
\* pixels}, candidate {wall 2.5, user 7.0, sys 1.5, 1000000 pixels, 4 threads}
Scenario ==
    /\ sm.wall_time_sec = FFromInt(10)
    /\ sm.cpu_user_time_sec = FFromInt(8)
    /\ sm.cpu_system_time_sec = FFromInt(1)
    /\ sm.total_pixels = 1000000
    /\ pm.wall_time_sec = FLit(25, 10)
    /\ pm.cpu_user_time_sec = FFromInt(7)
    /\ pm.cpu_system_time_sec = FLit(15, 10)
    /\ pm.total_pixels = 1000000
    /\ pm.threads_used = 4

\* C9: for runs with positive wall times and pixel counts the comparison
\* holds speedup_wall_time = baseline wall / candidate wall,
\* parallel_efficiency = speedup_wall_time / threads_used (threads_used is 1
\* or more in a run that took time; the other case is C11's),
\* speedup_pixels_per_sec = candidate throughput / baseline throughput and,
\* in the file written, candidate CPU utilization = (user + sys) / wall; in
\* the scenario these are 4.0, 1.0, 4.0 and 3.4.
C9_ComparisonFormulas ==
    (/\ ComparisonBuilt
     /\ FIsPos(sm.wall_time_sec) /\ FIsPos(pm.wall_time_sec)
     /\ sm.total_pixels > 0 /\ pm.total_pixels > 0)
    => /\ cmp.speedup_wall_time = FDiv(sm.wall_time_sec, pm.wall_time_sec)
       /\ pm.threads_used > 0 =>
              cmp.parallel_efficiency =
                  FDiv(cmp.speedup_wall_time, FFromInt(pm.threads_used))
       /\ cmp.speedup_pixels_per_sec =
              FDiv(FDiv(FFromInt(pm.total_pixels), pm.wall_time_sec),
                   FDiv(FFromInt(sm.total_pixels), sm.wall_time_sec))
       /\ ComparisonWritten =>
              compare_json.parallel_cpu_utilization =
                  FormatFixed(FDiv(FAdd(pm.cpu_user_time_sec,
                                        pm.cpu_system_time_sec),
                                   pm.wall_time_sec), 6)
       /\ Scenario =>
            /\ cmp.speedup_wall_time = FFromInt(4)
            /\ cmp.parallel_efficiency = FFromInt(1)
            /\ cmp.speedup_pixels_per_sec = FFromInt(4)
            /\ ComparisonWritten =>
                  /\ compare_json.speedup_wall_time = Numeral(FALSE, 4000000, 6)
                  /\ compare_json.parallel_efficiency
                        = Numeral(FALSE, 1000000, 6)
                  /\ compare_json.speedup_pixels_per_sec
                        = Numeral(FALSE, 4000000, 6)
                  /\ compare_json.parallel_cpu_utilization
                        = Numeral(FALSE, 3400000, 6)

\* the comparison of the scenario, built and written
C9_Witness == ComparisonWritten /\ Scenario

NonPositive(x) == ~FIsPos(x)
ZeroNumeral == [neg |-> FALSE, n |-> << >>, scale |-> 6]

\* C11: whatever the two Metrics hold, zero and negative values included, a
\* ratio of the comparison is exactly 0 when a denominator it needs is not
\* positive: the three speedups when either side's time is <= 0, a run's
\* throughput and CPU utilization (figures of the file written) when its
\* wall time is <= 0, speedup_pixels_per_sec when the baseline has no
\* throughput (no pixels or no wall time), and parallel_efficiency when
\* speedup_wall_time <= 0 or threads_used <= 0 (the comparison is computed
\* in every case: nothing is divided by zero).
C11_DegenerateRatiosZero ==
    /\ ComparisonBuilt =>
      /\ (NonPositive(sm.wall_time_sec) \/ NonPositive(pm.wall_time_sec))
            => cmp.speedup_wall_time = FZero
      /\ (NonPositive(sm.cpu_user_time_sec)
            \/ NonPositive(pm.cpu_user_time_sec))
            => cmp.speedup_cpu_user = FZero
      /\ (NonPositive(sm.cpu_system_time_sec)
            \/ NonPositive(pm.cpu_system_time_sec))
            => cmp.speedup_cpu_system = FZero
      /\ (sm.total_pixels <= 0 \/ NonPositive(sm.wall_time_sec))
            => cmp.speedup_pixels_per_sec = FZero
      /\ (NonPositive(cmp.speedup_wall_time) \/ pm.threads_used <= 0)
            => cmp.parallel_efficiency = FZero
    /\ ComparisonWritten =>
      /\ NonPositive(sm.wall_time_sec) =>
            /\ compare_json.serial_pixels_per_sec = ZeroNumeral
            /\ compare_json.serial_cpu_utilization = ZeroNumeral
      /\ NonPositive(pm.wall_time_sec) =>
            /\ compare_json.parallel_pixels_per_sec = ZeroNumeral
            /\ compare_json.parallel_cpu_utilization = ZeroNumeral

\* a candidate whose threads_used is not positive compared with a baseline
\* that took longer: the wall-time speedup is positive, the efficiency 0
C11_Witness ==
    /\ ComparisonWritten
    /\ pm.threads_used <= 0
    /\ FIsPos(cmp.speedup_wall_time)
    /\ cmp.parallel_efficiency = FZero

\* a candidate that is all zeros (a run that returned early) compared with
\* a baseline that is all zeros
AllZeroComparison ==
    /\ ComparisonWritten
    /\ pm = ZeroMetrics /\ sm = ZeroMetrics
    /\ cmp = ZeroComparison

\* a baseline with negative times compared with a candidate of positive
\* times and pixels
NegativeBaselineComparison ==
    /\ ComparisonBuilt
    /\ FIsNeg(sm.wall_time_sec) /\ FIsNeg(sm.cpu_user_time_sec)
    /\ sm.total_pixels > 0
    /\ FIsPos(pm.wall_time_sec) /\ FIsPos(pm.cpu_user_time_sec)
    /\ pm.total_pixels > 0
    /\ cmp.speedup_wall_time = FZero


(***************************************************************************)
(* Properties of the benchmark runs (HarnessSpec).                         *)
(***************************************************************************)
\* entries whose load succeeds when a run reaches them
Loadable ==
    {i \in 1..Len(dir.entries) :
        dir.opens /\ is_image_file(dir.entries[i])
                  /\ dir.entries[i].content # NullImage}

RECURSIVE SumPixels(_)
SumPixels(S) ==
    IF S = {} THEN 0
    ELSE LET i == CHOOSE j \in S : TRUE
         IN  dir.entries[i].content.width * dir.entries[i].content.height
               + SumPixels(S \ {i})

\* the largest of f over the entries S, 0 for none
LargestOf(S, f(_)) ==
    IF S = {} THEN 0 ELSE CHOOSE v \in {f(i) : i \in S} : \A i \in S : f(i) <= v

SameCounts(a, b) ==
    /\ a.images_processed = b.images_processed
    /\ a.total_pixels = b.total_pixels
    /\ a.max_width = b.max_width
    /\ a.max_height = b.max_height

\* C1: whatever thread takes which file and however the threads interleave,
\* the parallel run ends with the images_processed, total_pixels, max_width
\* and max_height of the serial run over the same directory: the counts
\* summed, the maxima taken over all loaded images.
C1_ParallelCountsEqualSerial ==
    ParallelReturned =>
        /\ SameCounts(pm, metrics)
        /\ pm.images_processed = Cardinality(Loadable)
        /\ pm.total_pixels = SumPixels(Loadable)
        /\ pm.max_width =
              LargestOf(Loadable, LAMBDA i : dir.entries[i].content.width)
        /\ pm.max_height =
              LargestOf(Loadable, LAMBDA i : dir.entries[i].content.height)

\* a parallel run over two images in which each thread loaded one of them,
\* the widest and the tallest being different files
C1_Witness ==
    /\ ppc = "exit"
    /\ \A t \in 1..2 : wk[t].counts.images_processed = 1
    /\ pm.images_processed = 2
    /\ pm.max_width = 2 /\ pm.max_height = 2

\* C7: in both runs images_processed is the number of files whose load
\* succeeded and total_pixels the sum of width * height over those files,
\* whichever loads and saves fail: a failed load adds nothing and the later
\* files are still processed, a failed save takes nothing back.
C7_CountsAreSuccessfulLoads ==
    /\ SerialReturned =>
         /\ metrics.images_processed = Cardinality(Loadable)
         /\ metrics.total_pixels = SumPixels(Loadable)
    /\ ParallelReturned =>
         /\ pm.images_processed = Cardinality(Loadable)
         /\ pm.total_pixels = SumPixels(Loadable)

\* both runs over a file that fails to load followed by an image whose save
\* fails
C7_Witness ==
    /\ ppc = "exit"
    /\ sout = {<<"load failed", 1>>, <<"save failed", 2>>}
    /\ pout = {<<"load failed", 1>>, <<"save failed", 2>>}
    /\ metrics.images_processed = 1 /\ pm.images_processed = 1
    /\ pm.total_pixels = 2

Loads(log) == {i \in DOMAIN log.ops : log.ops[i].n.load > 0}

\* C12: when the input directory cannot be opened, neither run loads an
\* image (whatever the directory holds) and each returns a Metrics whose
\* every field is 0.
C12_OpenFailureAborts ==
    ~dir.opens =>
        /\ Loads(slog) = {} /\ Loads(plog) = {}
        /\ SerialReturned => metrics = ZeroMetrics
        /\ ParallelReturned => pm = ZeroMetrics

\* both programs have run on a directory that holds a loadable image but
\* cannot be opened
C12_Witness ==
    /\ ~dir.opens /\ ppc = "exit"
    /\ \E i \in 1..Len(dir.entries) :
         is_image_file(dir.entries[i]) /\ load_image(dir.entries[i]) # NullImage

\* every pixel of im has R = G = B
Gray(im) ==
    /\ HasPixels(im)
    /\ \A p \in Pixels(im) :
          Chan(im, p, 0) = Chan(im, p, 1) /\ Chan(im, p, 1) = Chan(im, p, 2)

\* C20: after grayscale, box blur with radius 2 and Sobel on an image with 3
\* channels every pixel, on the border too, has R = G = B; and a box blur of
\* an image with R = G = B at every pixel gives R = G = B at every pixel.
C20_PipelineOutputIsGray ==
    /\ (FullPipeline /\ HasPixels(image) /\ image.channels = 3) => Gray(image)
    /\ (Called("apply_box_blur") /\ Gray(pre)) => Gray(image)

\* the pipeline has run on a 3 x 3 image with 3 channels and left pixels of
\* different values, after a blur that changed its gray input
C20_Witness ==
    /\ FullPipeline /\ HasPixels(image) /\ image.channels = 3
    /\ image.width = 3 /\ image.height = 3
    /\ Gray(image) /\ ~Uniform(image)
    /\ apply_box_blur(apply_grayscale(orig), 2) # apply_grayscale(orig)

\* the entries a run takes for image files
Candidates == {i \in 1..Len(dir.entries) : is_image_file(dir.entries[i])}

\* the number of pipeline, save and free calls due to entry i
CallsDue(i) == IF load_image(dir.entries[i]) # NullImage THEN 1 ELSE 0

\* entry i was loaded once and, if that gave an Image, the Image was
\* filtered, saved and released once; nothing of it is left allocated
TaskDone(log, i) ==
    /\ log.ops[i].n.load = 1
    /\ log.ops[i].n.pipeline = CallsDue(i)
    /\ log.ops[i].n.save = CallsDue(i)
    /\ log.ops[i].n.free = CallsDue(i)
    /\ ~log.ops[i].held

\* no call for an image came before the start samples or after the end
\* samples, and the end samples came after all calls for all image files
WindowHoldsAllCalls(log) ==
    /\ \A i \in DOMAIN log.ops : ~log.ops[i].untimed
    /\ log.timer = "stopped" => \A i \in Candidates : TaskDone(log, i)

WorkerCounts == [t \in 1..NumThreads |-> wk[t].counts]

\* in both runs the start samples precede the first load and the end
\* samples follow the load, pipeline, save and release of every image; when
\* the parallel run takes its end samples no thread is inside an iteration
\* and the counts it stores are the private counts of all threads merged
WindowsHoldAllWork ==
    /\ WindowHoldsAllCalls(slog)
    /\ WindowHoldsAllCalls(plog)
    /\ plog.timer = "stopped" =>
          /\ \A t \in 1..NumThreads :
                wk[t].pc = "idle" /\ wk[t].image = NullImage
          /\ SameCounts(pm, ReduceCounts(ZeroCounts, WorkerCounts))

\* the two runs have put their samples at the same places of their work:
\* both or neither took samples, and the same calls lie between them, those
\* that read and close the directory included
WindowsDelimitedAlike ==
    /\ slog.timer = plog.timer
    /\ slog.readdir = plog.readdir
    /\ slog.closedir = plog.closedir
    /\ \A i \in DOMAIN slog.ops :
          /\ slog.ops[i].n = plog.ops[i].n
          /\ slog.ops[i].untimed = plog.ops[i].untimed

\* C15: in both runs the start samples precede the first load and the end
\* samples follow the load, pipeline, save and release of every image; when
\* the parallel run takes its end samples no thread is inside an iteration
\* and the counts it stores are the private counts of all threads merged;
\* and once both programs have run, their timed windows are delimited
\* identically.
C15_TimedWindowHoldsAllWork ==
    /\ WindowsHoldAllWork
    /\ (spc = "exit" /\ ppc = "exit") => WindowsDelimitedAlike

\* both runs timed over two images, the parallel one with an image on each
\* thread and a failed save
TimedOverTwoImages ==
    /\ ppc = "exit"
    /\ slog.timer = "stopped" /\ plog.timer = "stopped"
    /\ Cardinality(Loadable) = 2
    /\ plog.ops[1].by # plog.ops[2].by
    /\ <<"save failed", 1>> \in pout

\* entry i is loaded at most once and saved at most once, saved only if its
\* one load gave an Image, and not loaded at all unless it is an image file
AttemptedAtMostOnce(log, i) ==
    /\ log.ops[i].n.load <= 1
    /\ log.ops[i].n.save <= 1
    /\ log.ops[i].n.save > 0 => log.ops[i].n.load = 1 /\ CallsDue(i) = 1
    /\ log.ops[i].n.load > 0 => i \in Candidates

NoRetries ==
    \A i \in 1..Len(dir.entries) :
        AttemptedAtMostOnce(slog, i) /\ AttemptedAtMostOnce(plog, i)

\* both programs have ended and each has loaded every image file once
AllAttempted ==
    /\ spc = "exit" /\ ppc = "exit"
    /\ \A i \in Candidates :
          slog.ops[i].n.load = 1 /\ plog.ops[i].n.load = 1

\* C16: load is called at most once per file, save at most once and only
\* after the load succeeded, nothing is attempted again after a failure, and
\* when the directory opens both programs reach their end with every image
\* file attempted, however many loads and saves fail.
C16_EveryFileAttemptedOnce == []NoRetries /\ (dir.opens ~> AllAttempted)

\* both programs ended after a failed load and a failed save each
C16_Witness ==
    /\ dir.opens /\ AllAttempted
    /\ \E i, j \in Candidates :
          /\ <<"load failed", i>> \in sout /\ <<"save failed", j>> \in sout
          /\ <<"load failed", i>> \in pout /\ <<"save failed", j>> \in pout

\* the Image of entry i is released at most once and only if the load gave
\* one, no filter, save or release was called for it while it was not
\* allocated, and it is still allocated as long as it has not been released
ReleasedProperly(log, i) ==
    /\ log.ops[i].n.free <= CallsDue(i)
    /\ ~log.ops[i].stale
    /\ log.ops[i].held <=> (log.ops[i].n.load = 1 /\ CallsDue(i) = 1
                                                   /\ log.ops[i].n.free = 0)

\* every Image the run loaded has been released
NothingHeld(log) ==
    \A i \in DOMAIN log.ops :
        /\ ~log.ops[i].held
        /\ log.ops[i].n.free = log.ops[i].n.load * CallsDue(i)

\* C17: an Image that was loaded is released exactly once, also when its
\* save fails; no filter or save is called on it after the release; a failed
\* load releases nothing; when a run has returned nothing it loaded is still
\* allocated; in the parallel run all calls for a file are made by one
\* thread.
C17_LoadedImageReleasedOnce ==
    /\ \A i \in 1..Len(dir.entries) :
          /\ ReleasedProperly(slog, i)
          /\ ReleasedProperly(plog, i)
          /\ Cardinality(plog.ops[i].by) <= 1
    /\ SerialReturned => NothingHeld(slog) /\ simg = NoImage
    /\ ParallelReturned =>
          /\ NothingHeld(plog)
          /\ \A t \in 1..NumThreads : wk[t].image = NullImage

\* both runs returned; an Image whose save failed was released once in
\* each, and a file that did not load was never released
C17_Witness ==
    /\ SerialReturned /\ ParallelReturned
    /\ \E i, j \in Candidates :
          /\ <<"save failed", i>> \in sout /\ slog.ops[i].n.free = 1
          /\ <<"save failed", i>> \in pout /\ plog.ops[i].n.free = 1
          /\ CallsDue(j) = 0
          /\ slog.ops[j].n.load = 1 /\ slog.ops[j].n.free = 0
          /\ plog.ops[j].n.load = 1 /\ plog.ops[j].n.free = 0

\* the bounds on the counters of a run
CountersBounded(acc) ==
    /\ 0 <= acc.images_processed
    /\ acc.images_processed <= Cardinality(Candidates)
    /\ acc.total_pixels
          <= acc.images_processed * acc.max_width * acc.max_height
    /\ acc.images_processed = 0 => acc.max_width = 0 /\ acc.max_height = 0

\* max_width and max_height of the serial run, of the private copies of the
\* threads and of the parallel run's Metrics do not go down in a step
MaximaGrow ==
    /\ metrics'.max_width >= metrics.max_width
    /\ metrics'.max_height >= metrics.max_height
    /\ pm'.max_width >= pm.max_width
    /\ pm'.max_height >= pm.max_height
    /\ \A t \in 1..NumThreads :
          /\ wk'[t].counts.max_width >= wk[t].counts.max_width
          /\ wk'[t].counts.max_height >= wk[t].counts.max_height

\* C18: after every step of the serial run and at the end of the parallel
\* run, 0 <= images_processed <= number of image files, total_pixels <=
\* images_processed * max_width * max_height, and the maxima are 0 while
\* images_processed is 0; max_width and max_height never decrease.
C18_CountersBounded ==
    /\ [](CountersBounded(metrics) /\ (ParallelReturned => CountersBounded(pm)))
    /\ [][MaximaGrow]_vars

\* two images of different sizes counted by both runs: the bound on
\* total_pixels is not reached
C18_Witness ==
    /\ spc = "exit" /\ ppc = "exit"
    /\ metrics.images_processed = 2 /\ pm.images_processed = 2
    /\ metrics.total_pixels < 2 * metrics.max_width * metrics.max_height
    /\ pm.total_pixels < 2 * pm.max_width * pm.max_height
    /\ dir.entries[1].content.width > dir.entries[2].content.width

RecomputedEstimateEqualsStoredInRange ==
    (ComparisonBuilt /\ ConversionDefined(pm)) =>
      /\ cmp.parallel_est_total_cycles_all_threads
            = pm.estimated_total_cycles_all_threads
      /\ (NonPositive(pm.wall_time_sec)
           \/ NonPositive(FAdd(pm.cpu_user_time_sec, pm.cpu_system_time_sec)))
          => cmp.parallel_est_total_cycles_all_threads = << >>

\* a comparison whose estimate for the parallel run is out of range: the
\* stored figure and the recomputed one are outcomes of two conversions
EstimatesDiffer ==
    /\ ComparisonBuilt /\ ~ConversionDefined(pm)
    /\ cmp.parallel_est_total_cycles_all_threads
         # pm.estimated_total_cycles_all_threads

RatesZero(x) ==
    /\ x.avg_time_per_image_ms = FZero
    /\ x.avg_time_per_pixel_ns = FZero
    /\ x.cycles_per_image = FZero
    /\ x.cycles_per_pixel = FZero

\* C10: a run of either program that processes no image ends with
\* avg_time_per_image_ms, avg_time_per_pixel_ns, cycles_per_image and
\* cycles_per_pixel exactly 0 and, in the parallel program, the per-image and
\* per-pixel estimated cycles exactly 0.
C10_ZeroImageRatesZero ==
    /\ (SerialReturned /\ metrics.images_processed = 0) => RatesZero(metrics)
    /\ (ParallelReturned /\ pm.images_processed = 0) =>
         /\ RatesZero(pm)
         /\ pm.estimated_cycles_per_image_all_threads = FZero
         /\ pm.estimated_cycles_per_pixel_all_threads = FZero

\* both runs timed over a directory whose only image file fails to load
C10_Witness ==
    /\ ppc = "exit"
    /\ files # << >>
    /\ metrics.images_processed = 0 /\ FIsPos(metrics.wall_time_sec)
    /\ pm.images_processed = 0 /\ FIsPos(pm.wall_time_sec)
    /\ BCmp(pm.cpu_cycles, << >>) > 0

====
